---------------------------- MODULE Spec2Model ----------------------------
(***************************************************************************)
(* The transport-puzzle compiler, solver and verifier of                   *)
(* LLMReasoningBenchmark (src/README.md, lines 227-742).                    *)
(*                                                                         *)
(* generatePrologCode compiles a configuration into a Prolog program; the  *)
(* program is kept here as the record of its facts (move/1, init_counts/1, *)
(* initial_state/1, final_state/1, the relationship indices of safe/1) and *)
(* its rules are operators that return the SEQUENCE OF ANSWERS the goal    *)
(* has under Prolog's resolution order (clauses top to bottom, goals left  *)
(* to right, one answer per proof).  Text is a tuple of one-character      *)
(* strings, so that the encoder and the decoder work on characters as the  *)
(* JavaScript does.                                                        *)
(***************************************************************************)
EXTENDS Integers, Sequences, FiniteSets, TLC

VARIABLES
    config,     \* the PuzzleConfig handed to solveProblem / checkUserSolution
    pc,         \* position of the call: "ready", "answering", "returned", "checked"
    program,    \* solveProblem's local prologProgram (<<>> before it is compiled)
    stack,      \* the engine's open path/3 calls, outermost first
    proofs,     \* the terms bound to Sol by the answers so far
    solutions,  \* solveProblem's local array `solutions`
    returned,   \* the array solveProblem returned (<<>> before it returns)
    lines,      \* the solutionLines handed to checkUserSolution
    parsed,     \* what parseSolutionLines did in checkUserSolution: threw, or its stepsArray
    verdict,    \* what checkUserSolution did: "none", "true", "false", "threw"
    gen,        \* generateRandomConfig's call: its position, arguments and locals
    session,    \* the call's Tau Prolog session: consults and queries asked of it, error reported
    suspended,  \* the locals of a second call that waits on the event loop while this one runs
    modal,      \* the LLMReasoningBenchmarkModal that subscribed to the task: what it saw and did
    task        \* runTask's call: its position, the locals of its retry loop and of ensureValidJson

vars == <<config, pc, program, stack, proofs, solutions, returned, lines, parsed, verdict, gen, session, suspended, modal, task>>

----------------------------------------------------------------------------
(* Bounds of the model.                                                    *)

\* largest total population of a configuration of the bounded family
MaxPopulation == 2
\* largest shuttle capacity of a configuration of the bounded family
MaxCapacity == 2
\* most relationships of a configuration of the bounded family
MaxRelationships == 1
\* most lines of a candidate solution handed to checkUserSolution
MaxLines == 3

----------------------------------------------------------------------------
(* Text: tuples of one-character strings.                                  *)

DigitChars == <<"0", "1", "2", "3", "4", "5", "6", "7", "8", "9">>

IsDigit(ch) == \E i \in 1..Len(DigitChars) : DigitChars[i] = ch

DigitValue(ch) == (CHOOSE i \in 1..Len(DigitChars) : DigitChars[i] = ch) - 1

IsSpace(ch) == ch = " "

\* `${count}` of a non-negative integer: its decimal digits
RECURSIVE NumberToString(_)
NumberToString(k) ==
    IF k < 10 THEN <<DigitChars[k + 1]>>
    ELSE NumberToString(k \div 10) \o <<DigitChars[(k % 10) + 1]>>

\* parseInt(digits, 10) of a non-empty run of digits
RECURSIVE ParseInt(_)
ParseInt(ds) ==
    IF Len(ds) = 0 THEN 0
    ELSE 10 * ParseInt(SubSeq(ds, 1, Len(ds) - 1)) + DigitValue(ds[Len(ds)])

\* Array.prototype.join
RECURSIVE Join(_, _)
Join(parts, sep) ==
    IF Len(parts) = 0 THEN <<>>
    ELSE IF Len(parts) = 1 THEN parts[1]
    ELSE parts[1] \o sep \o Join(Tail(parts), sep)

\* whether sep occurs in s at position i
MatchAt(s, sep, i) ==
    /\ i + Len(sep) - 1 <= Len(s)
    /\ \A k \in 1..Len(sep) : s[i + k - 1] = sep[k]

\* String.prototype.split with a non-empty separator: the pieces between the
\* occurrences of sep, found left to right without overlap
RECURSIVE SplitFrom(_, _, _, _)
SplitFrom(s, sep, from, i) ==
    IF i > Len(s) THEN <<SubSeq(s, from, Len(s))>>
    ELSE IF MatchAt(s, sep, i)
         THEN <<SubSeq(s, from, i - 1)>> \o SplitFrom(s, sep, i + Len(sep), i + Len(sep))
         ELSE SplitFrom(s, sep, from, i + 1)

Split(s, sep) == SplitFrom(s, sep, 1, 1)

\* String.prototype.trim
RECURSIVE TrimLeft(_)
TrimLeft(s) == IF Len(s) > 0 /\ IsSpace(s[1]) THEN TrimLeft(Tail(s)) ELSE s

RECURSIVE TrimRight(_)
TrimRight(s) ==
    IF Len(s) > 0 /\ IsSpace(s[Len(s)]) THEN TrimRight(SubSeq(s, 1, Len(s) - 1)) ELSE s

Trim(s) == TrimRight(TrimLeft(s))

\* Array.prototype.indexOf, 0-based, -1 when absent
IndexOf(arr, x) ==
    IF \E i \in 1..Len(arr) : arr[i] = x
    THEN (CHOOSE i \in 1..Len(arr) : arr[i] = x /\ \A j \in 1..(i - 1) : arr[j] # x) - 1
    ELSE -1

RECURSIVE SumSeq(_)
SumSeq(s) == IF Len(s) = 0 THEN 0 ELSE s[1] + SumSeq(Tail(s))

\* the literals of the step-line grammar
CrossSeparator == <<" ", "c", "r", "o", "s", "s", " ">>
LeftToRightText == <<"l", "e", "f", "t", " ", "-", ">", " ", "r", "i", "g", "h", "t">>
RightToLeftText == <<"r", "i", "g", "h", "t", " ", "-", ">", " ", "l", "e", "f", "t">>
ArrowText == <<" ", "-", ">", " ">>
CommaSpace == <<",", " ">>


----------------------------------------------------------------------------
(* Configurations.  A PuzzleConfig is                                      *)
(*   [species: <<[name, count]>>, relationships: <<[predator, prey]>>,     *)
(*    starshipCapacity]                                                    *)
(* with names as text.                                                     *)

NameA == <<"a">>
NameB == <<"b">>
NameCross == <<"c", "r", "o", "s", "s">>
NameCats == <<"c", "a", "t", "s">>
NameDogs == <<"d", "o", "g", "s">>

\* the name lists of the bounded family: plain names, and lists in which a
\* species has the five lowercase letters "cross", which randomName can draw
FamilyNames == {<<NameA>>, <<NameCross>>, <<NameA, NameB>>, <<NameA, NameCross>>}

CountVectors(n) == {v \in [1..n -> 0..MaxPopulation] : SumSeq(v) <= MaxPopulation}

\* ordered (predator, prey) pairs of two different species positions
OrderedPairs(n) == {p \in (1..n) \X (1..n) : p[1] # p[2]}

\* lists of pairwise different ordered pairs
PairLists(n) ==
    {s \in UNION {[1..k -> OrderedPairs(n)] : k \in 0..MaxRelationships} :
        \A i, j \in DOMAIN s : i # j => s[i] # s[j]}

MakeConfig(names, counts, pairs, capacity) ==
    [species |-> [i \in 1..Len(names) |-> [name |-> names[i], count |-> counts[i]]],
     relationships |->
        [k \in 1..Len(pairs) |-> [predator |-> names[pairs[k][1]], prey |-> names[pairs[k][2]]]],
     starshipCapacity |-> capacity]

FamilyConfigs ==
    UNION {{MakeConfig(names, counts, pairs, capacity) :
                counts \in CountVectors(Len(names)), pairs \in PairLists(Len(names)),
                capacity \in 1..MaxCapacity} :
           names \in FamilyNames}

\* spec.md, section 8, concrete scenario 1: a(2), b(2), capacity 2, (predator b, prey a)
Scenario1 == MakeConfig(<<NameA, NameB>>, <<2, 2>>, <<<<2, 1>>>>, 2)

\* spec.md, section 8, concrete scenario 2: cats(2), dogs(1), capacity 3
Scenario2 == MakeConfig(<<NameCats, NameDogs>>, <<2, 1>>, <<>>, 3)

\* the classic instance of the puzzle: a(3), b(3), capacity 2, (predator b, prey a)
Classic == MakeConfig(<<NameA, NameB>>, <<3, 3>>, <<<<2, 1>>>>, 2)

\* a(2), b(2), capacity 3, (predator b, prey a): its shortest solutions take 3 steps
Scenario1Wide == MakeConfig(<<NameA, NameB>>, <<2, 2>>, <<<<2, 1>>>>, 3)

\* a(2), b(1), capacity 2, no relationship
Unconstrained == MakeConfig(<<NameA, NameB>>, <<2, 1>>, <<>>, 2)

\* a(2), cross(1), capacity 2, no relationship
CrossPair == MakeConfig(<<NameA, NameCross>>, <<2, 1>>, <<>>, 2)

\* configurations beyond the bounded family
NamedConfigs == {Scenario1, Scenario2, Classic, Scenario1Wide, Unconstrained, CrossPair}

Configs == FamilyConfigs \cup NamedConfigs

----------------------------------------------------------------------------
(* generateAllowedMoves and generatePrologCode.                            *)

\* helper(current, index) of generateAllowedMoves, with its for-loop from i
RECURSIVE helper(_, _, _, _, _)
helper(current, index, i, n, capacity) ==
    IF index = n
    THEN IF SumSeq(current) >= 1 /\ SumSeq(current) <= capacity THEN <<current>> ELSE <<>>
    ELSE IF i > capacity THEN <<>>
    ELSE helper(Append(current, i), index + 1, 0, n, capacity)
         \o helper(current, index, i + 1, n, capacity)

\* generateAllowedMoves with its loop bound and total taken one below the capacity
generateAllowedMovesBelow(n, capacity) == helper(<<>>, 0, 0, n, capacity - 1)

\* generateAllowedMoves with its loops counting down: the same moves, last first
generateAllowedMovesDescending(n, capacity) ==
    [k \in 1..Len(helper(<<>>, 0, 0, n, capacity)) |->
        helper(<<>>, 0, 0, n, capacity)[Len(helper(<<>>, 0, 0, n, capacity)) + 1 - k]]

generateAllowedMoves(n, capacity) == helper(<<>>, 0, 0, n, capacity)

\* config.starshipCapacity || 2
EffectiveCapacity(cfg) ==
    IF "starshipCapacity" \notin DOMAIN cfg THEN 2
    ELSE IF cfg.starshipCapacity = 0 THEN 2
    ELSE cfg.starshipCapacity

SpeciesNames(cfg) == [i \in 1..Len(cfg.species) |-> cfg.species[i].name]

InitCounts(cfg) == [i \in 1..Len(cfg.species) |-> cfg.species[i].count]

\* The compiled program: its facts, and for safe/1 the indices written into the
\* rule body (safeTrivial is the fact safe(_) emitted for no relationships).
generatePrologCode(cfg) ==
    [move |-> generateAllowedMoves(Len(cfg.species), EffectiveCapacity(cfg)),
     init_counts |-> InitCounts(cfg),
     initial_state |-> [counts |-> InitCounts(cfg), side |-> "start"],
     final_state |-> [counts |-> [i \in 1..Len(cfg.species) |-> 0], side |-> "target"],
     safeTrivial |-> Len(cfg.relationships) = 0,
     safeBody |-> [k \in 1..Len(cfg.relationships) |->
                     [predatorIndex |-> IndexOf(SpeciesNames(cfg), cfg.relationships[k].predator),
                      preyIndex |-> IndexOf(SpeciesNames(cfg), cfg.relationships[k].prey)]]]

----------------------------------------------------------------------------
(* The rules of the compiled program.  A goal's value is the sequence of   *)
(* its answers in the order the engine finds them.                         *)

\* nth0/3 with its first argument bound: the first clause cuts
RECURSIVE nth0(_, _)
nth0(N, L) ==
    IF Len(L) = 0 THEN <<>>
    ELSE IF N = 0 THEN <<L[1]>>
    ELSE IF N > 0 THEN nth0(N - 1, Tail(L))
    ELSE <<>>

\* apply_move_subtract(Xs, Ys, Zs): Z is X - Y, Z >= 0
RECURSIVE apply_move_subtract(_, _)
\* apply_move_subtract with Z is Y - X in place of Z is X - Y
apply_move_subtract_swapped(Xs, Ys) ==
    IF Len(Xs) = 0 /\ Len(Ys) = 0 THEN <<<<>>>>
    ELSE IF Len(Xs) = 0 \/ Len(Ys) = 0 THEN <<>>
    ELSE IF Ys[1] - Xs[1] >= 0
         THEN LET Zs == apply_move_subtract(Tail(Xs), Tail(Ys))
              IN  [r \in 1..Len(Zs) |-> <<Ys[1] - Xs[1]>> \o Zs[r]]
         ELSE <<>>

\* apply_move_subtract without the goal Z >= 0
apply_move_subtract_unchecked(Xs, Ys) ==
    IF Len(Xs) = 0 /\ Len(Ys) = 0 THEN <<<<>>>>
    ELSE IF Len(Xs) = 0 \/ Len(Ys) = 0 THEN <<>>
    ELSE LET Zs == apply_move_subtract(Tail(Xs), Tail(Ys))
         IN  [r \in 1..Len(Zs) |-> <<Xs[1] - Ys[1]>> \o Zs[r]]

apply_move_subtract(Xs, Ys) ==
    IF Len(Xs) = 0 /\ Len(Ys) = 0 THEN <<<<>>>>
    ELSE IF Len(Xs) = 0 \/ Len(Ys) = 0 THEN <<>>
    ELSE IF Xs[1] - Ys[1] >= 0
         THEN LET Zs == apply_move_subtract(Tail(Xs), Tail(Ys))
              IN  [r \in 1..Len(Zs) |-> <<Xs[1] - Ys[1]>> \o Zs[r]]
         ELSE <<>>

\* apply_move_add(Xs, Is, Ys, Zs): Available is I - X, Y =< Available, Z is X + Y
RECURSIVE apply_move_add(_, _, _)
\* apply_move_add without the goal Y =< Available
apply_move_add_unchecked(Xs, Is, Ys) ==
    IF Len(Xs) = 0 /\ Len(Is) = 0 /\ Len(Ys) = 0 THEN <<<<>>>>
    ELSE IF Len(Xs) = 0 \/ Len(Is) = 0 \/ Len(Ys) = 0 THEN <<>>
    ELSE LET Zs == apply_move_add(Tail(Xs), Tail(Is), Tail(Ys))
         IN  [r \in 1..Len(Zs) |-> <<Xs[1] + Ys[1]>> \o Zs[r]]

apply_move_add(Xs, Is, Ys) ==
    IF Len(Xs) = 0 /\ Len(Is) = 0 /\ Len(Ys) = 0 THEN <<<<>>>>
    ELSE IF Len(Xs) = 0 \/ Len(Is) = 0 \/ Len(Ys) = 0 THEN <<>>
    ELSE IF Ys[1] <= Is[1] - Xs[1]
         THEN LET Zs == apply_move_add(Tail(Xs), Tail(Is), Tail(Ys))
              IN  [r \in 1..Len(Zs) |-> <<Xs[1] + Ys[1]>> \o Zs[r]]
         ELSE <<>>

\* not_member/2 as a fact that holds of any X and L
not_member_of_any(X, L) == TRUE

\* not_member(X, L)
RECURSIVE not_member(_, _)
not_member(X, L) ==
    IF Len(L) = 0 THEN TRUE
    ELSE X # L[1] /\ not_member(X, Tail(L))

\* the number of proofs of the goal Prey >= Pred alone
DisjunctionWithoutAbsent(Prey, Pred) == IF Prey >= Pred THEN 1 ELSE 0

\* the number of proofs of (Prey =:= 0 ; Prey >= Pred): one per disjunct that holds
Disjunction(Prey, Pred) == (IF Prey = 0 THEN 1 ELSE 0) + (IF Prey >= Pred THEN 1 ELSE 0)

\* the number of proofs of the goals that relationship k and the later ones
\* contribute to the body of safe/1
RECURSIVE safeGoals(_, _, _)
safeGoals(prog, Counts, k) ==
    IF k > Len(prog.safeBody) THEN 1
    ELSE LET pred == prog.safeBody[k].predatorIndex
             prey == prog.safeBody[k].preyIndex
         IN  IF \/ nth0(pred, Counts) = <<>>
                \/ nth0(prey, Counts) = <<>>
                \/ nth0(pred, prog.init_counts) = <<>>
                \/ nth0(prey, prog.init_counts) = <<>>
             THEN 0
             ELSE LET PredCount == nth0(pred, Counts)[1]
                      PreyCount == nth0(prey, Counts)[1]
                      TargetPred == nth0(pred, prog.init_counts)[1] - PredCount
                      TargetPrey == nth0(prey, prog.init_counts)[1] - PreyCount
                  IN  Disjunction(PreyCount, PredCount)
                      * Disjunction(TargetPrey, TargetPred)
                      * safeGoals(prog, Counts, k + 1)

\* safe/1 as the fact safe(_), whatever the relationships
safeFactOnly(prog, State) == 1

\* safe(State): the number of its proofs
safe(prog, State) == IF prog.safeTrivial THEN 1 ELSE safeGoals(prog, State.counts, 1)

Replicate(x, k) == [i \in 1..k |-> x]

\* the answers of transition_with_move(State, Move, Next) over the move facts
\* `facts` that move(Move) unifies with, from fact number i on
RECURSIVE transitionFrom(_, _, _, _)
transitionFrom(prog, State, facts, i) ==
    IF i > Len(facts) THEN <<>>
    ELSE LET Move == facts[i]
             NewCounts == IF State.side = "start"
                          THEN apply_move_subtract(State.counts, Move)
                          ELSE apply_move_add(State.counts, prog.init_counts, Move)
             NewSide == IF State.side = "start" THEN "target" ELSE "start"
         IN  (IF NewCounts = <<>> THEN <<>>
              ELSE LET Next == [counts |-> NewCounts[1], side |-> NewSide]
                   IN  Replicate([move |-> Move, next |-> Next], safe(prog, Next)))
             \o transitionFrom(prog, State, facts, i + 1)

\* transition_with_move(State, Move, Next) with Move unbound
transition_with_move(prog, State) == transitionFrom(prog, State, prog.move, 1)

\* transition_with_move with Move bound and its goal move(Move) left out
transition_without_move_fact(prog, State, Move) == transitionFrom(prog, State, <<Move>>, 1)

\* transition_with_move(State, Move, Next) with Move bound
transition_with_bound_move(prog, State, Move) ==
    transitionFrom(prog, State, SelectSeq(prog.move, LAMBDA m : m = Move), 1)

\* check_solution(Steps, State): whether the goal has a proof
RECURSIVE check_solution(_, _, _)
\* check_solution whose base clause accepts any state
check_solution_any_end(prog, Steps, State) ==
    IF Len(Steps) = 0 THEN TRUE
    ELSE /\ \/ Steps[1].direction = "leftToRight" /\ State.side = "start"
            \/ Steps[1].direction = "rightToLeft" /\ State.side = "target"
         /\ LET answers == transition_with_bound_move(prog, State, Steps[1].amounts)
            IN  \E r \in DOMAIN answers : check_solution(prog, Tail(Steps), answers[r].next)

\* check_solution whose clauses take the side from the state alone
check_solution_any_direction(prog, Steps, State) ==
    IF Len(Steps) = 0 THEN State = prog.final_state
    ELSE LET answers == transition_with_bound_move(prog, State, Steps[1].amounts)
         IN  \E r \in DOMAIN answers : check_solution(prog, Tail(Steps), answers[r].next)

\* check_solution that succeeds as soon as the replay stands in the final state
check_solution_stop_at_final(prog, Steps, State) ==
    \/ State = prog.final_state
    \/ /\ Len(Steps) > 0
       /\ \/ Steps[1].direction = "leftToRight" /\ State.side = "start"
          \/ Steps[1].direction = "rightToLeft" /\ State.side = "target"
       /\ LET answers == transition_with_bound_move(prog, State, Steps[1].amounts)
          IN  \E r \in DOMAIN answers : check_solution(prog, Tail(Steps), answers[r].next)

check_solution(prog, Steps, State) ==
    IF Len(Steps) = 0 THEN State = prog.final_state
    ELSE /\ \/ Steps[1].direction = "leftToRight" /\ State.side = "start"
            \/ Steps[1].direction = "rightToLeft" /\ State.side = "target"
         /\ LET answers == transition_with_bound_move(prog, State, Steps[1].amounts)
            IN  \E r \in DOMAIN answers : check_solution(prog, Tail(Steps), answers[r].next)


----------------------------------------------------------------------------
(* The codec: moveToSentence, solutionToHumanReadableList,                 *)
(* parseSolutionLines, stepToPrologTerm.                                   *)

\* sideToText with the two texts exchanged
sideToTextExchanged(sideAtom) ==
    IF sideAtom = "start" THEN <<"r", "i", "g", "h", "t">> ELSE <<"l", "e", "f", "t">>

sideToText(sideAtom) == IF sideAtom = "start" THEN <<"l", "e", "f", "t">> ELSE <<"r", "i", "g", "h", "t">>

\* moveSegments without the test count > 0
RECURSIVE moveSegmentsWithZeros(_, _, _)
moveSegmentsWithZeros(amounts, species, i) ==
    IF i > Len(amounts) THEN <<>>
    ELSE <<NumberToString(amounts[i]) \o <<" ">> \o species[i].name>>
         \o moveSegmentsWithZeros(amounts, species, i + 1)

\* the segments `${count} ${spName}` of the species with count > 0, from species i on
RECURSIVE moveSegments(_, _, _)
moveSegments(amounts, species, i) ==
    IF i > Len(amounts) THEN <<>>
    ELSE (IF amounts[i] > 0
          THEN <<NumberToString(amounts[i]) \o <<" ">> \o species[i].name>>
          ELSE <<>>)
         \o moveSegments(amounts, species, i + 1)

\* moveTerm is move(MoveList, OldState, NewState)
moveToSentence(moveTerm, species) ==
    LET direction == sideToText(moveTerm.before.side) \o ArrowText \o sideToText(moveTerm.after.side)
        crossingWhat == Join(moveSegments(moveTerm.move, species, 1), CommaSpace)
    IN  crossingWhat \o <<" ">> \o <<"c", "r", "o", "s", "s">> \o <<" ">> \o direction

solutionToHumanReadableList(solutionTerm, species) ==
    [i \in 1..Len(solutionTerm) |-> moveToSentence(solutionTerm[i], species)]

\* the end of the longest run of digits (of spaces) in s that starts at position i
RECURSIVE DigitRun(_, _)
DigitRun(s, i) == IF i <= Len(s) /\ IsDigit(s[i]) THEN DigitRun(s, i + 1) ELSE i - 1

RECURSIVE SpaceRun(_, _)
SpaceRun(s, i) == IF i <= Len(s) /\ IsSpace(s[i]) THEN SpaceRun(s, i + 1) ELSE i - 1

NoMatch == [ok |-> FALSE, count |-> 0, spName |-> <<>>]

\* (\S+)$ : the rest of the segment is the name when it is not empty and has no space
MatchName(digits, rest) ==
    IF Len(rest) >= 1 /\ \A k \in 1..Len(rest) : ~IsSpace(rest[k])
    THEN [ok |-> TRUE, count |-> ParseInt(digits), spName |-> rest]
    ELSE NoMatch

\* \s+ : w spaces follow the digits
MatchSpaces(digits, rest, w) ==
    IF w >= 1 THEN MatchName(digits, SubSeq(rest, w + 1, Len(rest))) ELSE NoMatch

\* ^(\d+) : the segment starts with d digits
MatchDigits(seg, d) ==
    IF d >= 1
    THEN MatchSpaces(SubSeq(seg, 1, d), SubSeq(seg, d + 1, Len(seg)),
                     SpaceRun(SubSeq(seg, d + 1, Len(seg)), 1))
    ELSE NoMatch

\* seg.match(/^(\d+)\s+(\S+)$/): [ok, count, spName]
MatchSegment(seg) == MatchDigits(seg, DigitRun(seg, 1))

\* addSegment with amounts[idx] = count in place of amounts[idx] += count
addSegmentOverwriting(amounts, m, idx) ==
    IF ~m.ok \/ idx < 0 THEN [ok |-> FALSE, amounts |-> amounts]
    ELSE [ok |-> TRUE, amounts |-> [amounts EXCEPT ![idx + 1] = m.count]]

\* one segment added to amounts: [ok, amounts]; ok is FALSE where the code throws
addSegment(amounts, m, idx) ==
    IF ~m.ok \/ idx < 0 THEN [ok |-> FALSE, amounts |-> amounts]
    ELSE [ok |-> TRUE, amounts |-> [amounts EXCEPT ![idx + 1] = @ + m.count]]

segmentIndex(speciesNames, m) == IF m.ok THEN IndexOf(speciesNames, m.spName) ELSE -1

parseSegment(speciesNames, amounts, m) == addSegment(amounts, m, segmentIndex(speciesNames, m))

\* the loop over the segments of one line, from segment i: [ok, amounts]
RECURSIVE parseSegments(_, _, _, _)
parseSegments(speciesNames, segments, i, acc) ==
    IF i > Len(segments) \/ ~acc.ok THEN acc
    ELSE parseSegments(speciesNames, segments, i + 1,
                       parseSegment(speciesNames, acc.amounts, MatchSegment(Trim(segments[i]))))

directionOf(directionStr) ==
    IF directionStr = LeftToRightText THEN "leftToRight"
    ELSE IF directionStr = RightToLeftText THEN "rightToLeft"
    ELSE "invalid"

InvalidLine == [ok |-> FALSE, amounts |-> <<>>, direction |-> "invalid"]

lineStep(direction, segs) ==
    IF direction = "invalid" \/ ~segs.ok THEN InvalidLine
    ELSE [ok |-> TRUE, amounts |-> segs.amounts, direction |-> direction]

\* the body of the loop of parseSolutionLines once the line is split at " cross ";
\* a missing or empty right part throws
parseParts(speciesNames, parts) ==
    IF Len(parts) < 2 THEN InvalidLine
    ELSE IF Len(parts[2]) = 0 THEN InvalidLine
    ELSE lineStep(directionOf(Trim(parts[2])),
                  parseSegments(speciesNames, Split(parts[1], <<",">>), 1,
                                [ok |-> TRUE, amounts |-> [i \in 1..Len(speciesNames) |-> 0]]))

\* the body of the loop of parseSolutionLines for one line: [ok, amounts, direction];
\* ok is FALSE where the code throws
parseLine(speciesNames, line) == parseParts(speciesNames, Split(line, CrossSeparator))

stepsOf(each) ==
    IF \E i \in 1..Len(each) : ~each[i].ok
    THEN [threw |-> TRUE, steps |-> <<>>]
    ELSE [threw |-> FALSE,
          steps |-> [i \in 1..Len(each) |->
                        [amounts |-> each[i].amounts, direction |-> each[i].direction]]]

\* parseSolutionLines(config, solutionLines): [threw, steps]
parseSolutionLines(cfg, solutionLines) ==
    stepsOf([i \in 1..Len(solutionLines) |-> parseLine(SpeciesNames(cfg), solutionLines[i])])

\* the query initial_state(Init), check_solution(Steps, Init) on the parsed steps
queryOutcome(prog, stepsArray) ==
    IF stepsArray.threw THEN "threw"
    ELSE IF check_solution(prog, stepsArray.steps, prog.initial_state) THEN "true"
    ELSE "false"

----------------------------------------------------------------------------
(* solveProblem: the engine's search for solve_solution(Sol).              *)
(* A frame of the stack is one open call path(State, Visited, Moves):      *)
(*   state   its first argument                                            *)
(*   move    the Move of the transition that led to it (<<>> at the root)   *)
(*   clause  the clause of path/3 the call is at (1, then 2)              *)
(*   alts    the choice points of the second clause: the answers of        *)
(*           transition_with_move(State, Move, NextState) not yet tried    *)

Frame(State, Move) == [state |-> State, move |-> Move, clause |-> 1, alts |-> <<>>]

Top == stack[Len(stack)]

\* Visited when the query starts from path(Initial, [], Solution)
VisitedWithoutInitial(stk) == [i \in 1..(Len(stk) - 1) |-> stk[Len(stk) + 1 - i].state]

\* Visited of the innermost call: [Next|Visited] down to [Initial]
Visited(stk) == [i \in 1..Len(stk) |-> stk[Len(stk) + 1 - i].state]

\* the term bound to Moves when the clause builds move(Move, NextState, NextState)
SolutionTermAfterOnly(stk) ==
    [i \in 1..(Len(stk) - 1) |->
        [move |-> stk[i + 1].move, before |-> stk[i + 1].state, after |-> stk[i + 1].state]]

\* the term bound to Moves along the stack: move(Move, State, NextState) per call
SolutionTerm(stk) ==
    [i \in 1..(Len(stk) - 1) |->
        [move |-> stk[i + 1].move, before |-> stk[i].state, after |-> stk[i + 1].state]]

\* the positions in alts of the answers whose NextState passes not_member
OpenAlternatives(stk) ==
    LET visited == Visited(stk)
        alts == stk[Len(stk)].alts
    IN  {j \in DOMAIN alts : not_member(alts[j].next, visited)}

Min(S) == CHOOSE x \in S : \A y \in S : x <= y

\* pl.create(): a session that has been asked nothing
NewSession == [consults |-> 0, queries |-> 0, error |-> "none"]

\* no second call is in progress
NoOtherCall == [pc |-> "none"]

\* no call of generateRandomConfig is in progress
NotGenerating == [pc |-> "idle"]

\* no modal has subscribed to a task
NoModal == [pc |-> "none"]

\* no call of runTask is in progress
NoTask == [pc |-> "none"]

Init ==
    /\ config \in Configs
    /\ pc = "ready"
    /\ program = <<>>
    /\ stack = <<>>
    /\ proofs = <<>>
    /\ solutions = <<>>
    /\ returned = <<>>
    /\ lines = <<>>
    /\ parsed = [threw |-> FALSE, steps |-> <<>>]
    /\ verdict = "none"
    /\ gen = NotGenerating
    /\ session = NewSession
    /\ suspended = NoOtherCall
    /\ modal = NoModal
    /\ task = NoTask

\* generatePrologCode, pl.create, consult, query("solve_solution(Sol)."):
\* initial_state(Initial), path(Initial, [Initial], Solution)
SolveProblem ==
    /\ pc = "ready"
    /\ pc' = "answering"
    /\ program' = generatePrologCode(config)
    /\ stack' = <<Frame(generatePrologCode(config).initial_state, <<>>)>>
    /\ session' = [session EXCEPT !.consults = @ + 1, !.queries = @ + 1]
    /\ UNCHANGED <<config, proofs, solutions, returned, lines, parsed, verdict, gen, suspended, modal, task>>

\* the call moves on to the second clause of path/3, whose first goal is
\* transition_with_move(State, Move, NextState)
SecondClause(stk) ==
    [stk EXCEPT ![Len(stk)].clause = 2,
                ![Len(stk)].alts = transition_with_move(program, stk[Len(stk)].state)]

\* first clause of path/3: final_state(State) holds, the engine answers and the
\* success callback pushes the steps and asks for the next answer
Answer ==
    /\ pc = "answering"
    /\ Len(stack) > 0
    /\ Top.clause = 1
    /\ Top.state = program.final_state
    /\ proofs' = Append(proofs, SolutionTerm(stack))
    /\ solutions' = Append(solutions, solutionToHumanReadableList(SolutionTerm(stack), config.species))
    /\ stack' = SecondClause(stack)
    /\ UNCHANGED <<config, pc, program, returned, lines, parsed, verdict, gen, session, suspended, modal, task>>

\* first clause of path/3 fails: on to the second
NotFinal ==
    /\ pc = "answering"
    /\ Len(stack) > 0
    /\ Top.clause = 1
    /\ Top.state # program.final_state
    /\ stack' = SecondClause(stack)
    /\ UNCHANGED <<config, pc, program, proofs, solutions, returned, lines, parsed, verdict, gen, session, suspended, modal, task>>

\* second clause of path/3: the next answer of transition_with_move whose
\* NextState is not in Visited; path(NextState, [NextState|Visited], Moves)
Extend ==
    /\ pc = "answering"
    /\ Len(stack) > 0
    /\ Top.clause = 2
    /\ LET open == OpenAlternatives(stack)
       IN  /\ open # {}
           /\ LET j == Min(open)
                  t == Top.alts[j]
              IN  stack' = Append([stack EXCEPT ![Len(stack)].alts = SubSeq(@, j + 1, Len(@))],
                                  Frame(t.next, t.move))
    /\ UNCHANGED <<config, pc, program, proofs, solutions, returned, lines, parsed, verdict, gen, session, suspended, modal, task>>

\* second clause of path/3 has no answer left: the call fails, the engine backtracks
Backtrack ==
    /\ pc = "answering"
    /\ Len(stack) > 0
    /\ Top.clause = 2
    /\ OpenAlternatives(stack) = {}
    /\ stack' = SubSeq(stack, 1, Len(stack) - 1)
    /\ UNCHANGED <<config, pc, program, proofs, solutions, returned, lines, parsed, verdict, gen, session, suspended, modal, task>>

\* no answer left: the promise resolves and solveProblem returns `solutions`
NoMoreAnswers ==
    /\ pc = "answering"
    /\ Len(stack) = 0
    /\ pc' = "returned"
    /\ returned' = solutions
    /\ UNCHANGED <<config, program, stack, proofs, solutions, lines, parsed, verdict, gen, session, suspended, modal, task>>

\* checkUserSolution(generatePrologCode(config), config, solutionLines): it
\* returns true or false, or parseSolutionLines throws and the call rejects
checkUserSolution(solutionLines) ==
    /\ lines' = solutionLines
    /\ parsed' = parseSolutionLines(config, solutionLines)
    /\ verdict' = queryOutcome(generatePrologCode(config), parsed')
    /\ pc' = "checked"
    /\ UNCHANGED <<config, program, stack, proofs, solutions, returned, gen, session, suspended, modal, task>>

\* a caller hands one of the returned solutions back to checkUserSolution
CheckReturned ==
    /\ pc = "returned"
    /\ \E i \in 1..Len(returned) : checkUserSolution(returned[i])

Next ==
    \/ SolveProblem
    \/ Answer
    \/ NotFinal
    \/ Extend
    \/ Backtrack
    \/ NoMoreAnswers
    \/ CheckReturned

Spec == Init /\ [][Next]_vars


----------------------------------------------------------------------------
(* checkUserSolution on candidate solutions written by a third party.      *)

\* the configurations candidates are written for
VerifyConfigs ==
    {MakeConfig(<<NameA>>, <<2>>, <<>>, 1),
     MakeConfig(<<NameA>>, <<2>>, <<>>, 2),
     Scenario1Wide}

\* the amounts a line of a candidate names for one species
CandidateAmounts == 0..2

\* a line of the step-line grammar for the step (amounts, direction); a step that
\* carries nobody is written with the segment "0 <first species>"
candidateLine(cfg, amounts, directionText) ==
    (IF SumSeq(amounts) = 0
     THEN <<"0", " ">> \o cfg.species[1].name
     ELSE Join(moveSegments(amounts, cfg.species, 1), CommaSpace))
    \o CrossSeparator \o directionText

CandidateLines(cfg) ==
    IF Len(cfg.species) = 0 THEN {}
    ELSE {candidateLine(cfg, amounts, directionText) :
            amounts \in [1..Len(cfg.species) -> CandidateAmounts],
            directionText \in {LeftToRightText, RightToLeftText}}

Candidates(cfg) == UNION {[1..k -> CandidateLines(cfg)] : k \in 0..MaxLines}

InitVerify ==
    /\ config \in VerifyConfigs
    /\ pc = "ready"
    /\ program = <<>>
    /\ stack = <<>>
    /\ proofs = <<>>
    /\ solutions = <<>>
    /\ returned = <<>>
    /\ lines = <<>>
    /\ parsed = [threw |-> FALSE, steps |-> <<>>]
    /\ verdict = "none"
    /\ gen = NotGenerating
    /\ session = NewSession
    /\ suspended = NoOtherCall
    /\ modal = NoModal
    /\ task = NoTask

\* a caller hands a candidate solution to checkUserSolution
CheckCandidate ==
    /\ pc = "ready"
    /\ \E solutionLines \in Candidates(config) : checkUserSolution(solutionLines)

NextVerify == CheckCandidate

SpecVerify == InitVerify /\ [][NextVerify]_vars

----------------------------------------------------------------------------
(* checkUserSolution on lines its decoder cannot read.                     *)

\* spec.md, section 8, concrete scenario 3: a direction that is neither literal
LineUpDown ==
    <<"2", " ", "c", "a", "t", "s", " ", "c", "r", "o", "s", "s", " ", "u">>
    \o <<"p", " ", "-", ">", " ", "d", "o", "w", "n">>

\* a line without " cross "
LineNoCross ==
    <<"2", " ", "c", "a", "t", "s", " ", "l", "e", "f", "t", " ", "-", ">">>
    \o <<" ", "r", "i", "g", "h", "t">>

\* a segment that does not match /^(\d+)\s+(\S+)$/
LineBadSegment ==
    <<"c", "a", "t", "s", " ", "2", " ", "c", "r", "o", "s", "s", " ", "l">>
    \o <<"e", "f", "t", " ", "-", ">", " ", "r", "i", "g", "h", "t">>

\* a species the configuration does not have
LineUnknownSpecies ==
    <<"2", " ", "b", "i", "r", "d", "s", " ", "c", "r", "o", "s", "s", " ">>
    \o <<"l", "e", "f", "t", " ", "-", ">", " ", "r", "i", "g", "h", "t">>

LineEveryone ==
    <<"2", " ", "c", "a", "t", "s", ",", " ", "1", " ", "d", "o", "g", "s">>
    \o <<" ", "c", "r", "o", "s", "s", " ", "l", "e", "f", "t", " ", "-", ">">>
    \o <<" ", "r", "i", "g", "h", "t">>

LineOneBack ==
    <<"1", " ", "c", "a", "t", "s", " ", "c", "r", "o", "s", "s", " ", "r">>
    \o <<"i", "g", "h", "t", " ", "-", ">", " ", "l", "e", "f", "t">>

LineOneOver ==
    <<"1", " ", "c", "a", "t", "s", " ", "c", "r", "o", "s", "s", " ", "l">>
    \o <<"e", "f", "t", " ", "-", ">", " ", "r", "i", "g", "h", "t">>

MalformedLines == {LineUpDown, LineNoCross, LineBadSegment, LineUnknownSpecies}

WellFormedLines == {LineEveryone, LineOneBack, LineOneOver}

UntrustedCandidates ==
    UNION {[1..k -> MalformedLines \cup WellFormedLines] : k \in 0..MaxLines}

InitDecode ==
    /\ config = Scenario2
    /\ pc = "ready"
    /\ program = <<>>
    /\ stack = <<>>
    /\ proofs = <<>>
    /\ solutions = <<>>
    /\ returned = <<>>
    /\ lines = <<>>
    /\ parsed = [threw |-> FALSE, steps |-> <<>>]
    /\ verdict = "none"
    /\ gen = NotGenerating
    /\ session = NewSession
    /\ suspended = NoOtherCall
    /\ modal = NoModal
    /\ task = NoTask

\* a caller hands untrusted text to checkUserSolution
CheckUntrusted ==
    /\ pc = "ready"
    /\ \E solutionLines \in UntrustedCandidates : checkUserSolution(solutionLines)

NextDecode == CheckUntrusted

SpecDecode == InitDecode /\ [][NextDecode]_vars

----------------------------------------------------------------------------
(* checkUserSolution handed lines whose segments may name a species more   *)
(* than once.  A line is written from a list of segments [idx, count].     *)

\* the segments a caller may write: species number idx (from 1) with a count
SegmentChoices == {[idx |-> i, count |-> c] : i \in 1..2, c \in 1..2}

\* the lists of one to three segments
SegmentLists == UNION {[1..k -> SegmentChoices] : k \in 1..3}

\* the text of the segments, in the order given
segmentTexts(cfg, segs) ==
    [k \in 1..Len(segs) |-> NumberToString(segs[k].count) \o <<" ">> \o cfg.species[segs[k].idx].name]

\* the line a caller writes from the segments and the direction text
segmentsLine(cfg, segs, directionText) ==
    Join(segmentTexts(cfg, segs), CommaSpace) \o CrossSeparator \o directionText

RepeatedCandidates(cfg) ==
    {<<segmentsLine(cfg, segs, directionText)>> :
        segs \in SegmentLists, directionText \in {LeftToRightText, RightToLeftText}}

InitRepeated ==
    /\ config = Scenario2
    /\ pc = "ready"
    /\ program = <<>>
    /\ stack = <<>>
    /\ proofs = <<>>
    /\ solutions = <<>>
    /\ returned = <<>>
    /\ lines = <<>>
    /\ parsed = [threw |-> FALSE, steps |-> <<>>]
    /\ verdict = "none"
    /\ gen = NotGenerating
    /\ session = NewSession
    /\ suspended = NoOtherCall
    /\ modal = NoModal
    /\ task = NoTask

\* a caller hands such a line to checkUserSolution
CheckRepeated ==
    /\ pc = "ready"
    /\ \E solutionLines \in RepeatedCandidates(config) : checkUserSolution(solutionLines)

NextRepeated == CheckRepeated

SpecRepeated == InitRepeated /\ [][NextRepeated]_vars

----------------------------------------------------------------------------
(* generatePrologCode called on its own.                                   *)

NameC == <<"c">>

CompileNames == {<<>>, <<NameA>>, <<NameA, NameB>>, <<NameA, NameB, NameC>>}

CompileFamily ==
    UNION {{MakeConfig(names, counts, pairs, capacity) :
                counts \in CountVectors(Len(names)), pairs \in PairLists(Len(names)),
                capacity \in 1..MaxCapacity} :
           names \in CompileNames}

CompileConfigs == CompileFamily \cup NamedConfigs

InitCompile ==
    /\ config \in CompileConfigs
    /\ pc = "ready"
    /\ program = <<>>
    /\ stack = <<>>
    /\ proofs = <<>>
    /\ solutions = <<>>
    /\ returned = <<>>
    /\ lines = <<>>
    /\ parsed = [threw |-> FALSE, steps |-> <<>>]
    /\ verdict = "none"
    /\ gen = NotGenerating
    /\ session = NewSession
    /\ suspended = NoOtherCall
    /\ modal = NoModal
    /\ task = NoTask

\* a caller compiles the configuration: generatePrologCode(config)
Compile ==
    /\ pc = "ready"
    /\ pc' = "compiled"
    /\ program' = generatePrologCode(config)
    /\ UNCHANGED <<config, stack, proofs, solutions, returned, lines, parsed, verdict, gen, session, suspended, modal, task>>

NextCompile == Compile

SpecCompile == InitCompile /\ [][NextCompile]_vars

\* configurations with a relationship that names a species the configuration
\* does not hold (the predator, the prey, or both)
UnknownPredator ==
    [species |-> <<[name |-> NameA, count |-> 1], [name |-> NameB, count |-> 1]>>,
     relationships |-> <<[predator |-> NameC, prey |-> NameA]>>,
     starshipCapacity |-> 2]

UnknownPrey ==
    [species |-> <<[name |-> NameA, count |-> 1], [name |-> NameB, count |-> 1]>>,
     relationships |-> <<[predator |-> NameB, prey |-> NameC]>>,
     starshipCapacity |-> 2]

UnknownBoth ==
    [species |-> <<[name |-> NameA, count |-> 2]>>,
     relationships |-> <<[predator |-> NameB, prey |-> NameC]>>,
     starshipCapacity |-> 1]

MalformedConfigs == {UnknownPredator, UnknownPrey, UnknownBoth}

\* generatePrologCode handed any PuzzleConfig, well-formed or not
InitCompileAny ==
    /\ config \in CompileConfigs \cup MalformedConfigs
    /\ pc = "ready"
    /\ program = <<>>
    /\ stack = <<>>
    /\ proofs = <<>>
    /\ solutions = <<>>
    /\ returned = <<>>
    /\ lines = <<>>
    /\ parsed = [threw |-> FALSE, steps |-> <<>>]
    /\ verdict = "none"
    /\ gen = NotGenerating
    /\ session = NewSession
    /\ suspended = NoOtherCall
    /\ modal = NoModal
    /\ task = NoTask

SpecCompileAny == InitCompileAny /\ [][NextCompile]_vars

----------------------------------------------------------------------------
(* generateRandomConfig (lines 227-274), one action per position of its     *)
(* relationship loop.  Math.random is the nondeterministic input.           *)

\* `chars` of randomName
NameChars ==
    <<"a", "b", "c", "d", "e", "f", "g", "h", "i", "j", "k", "l", "m",
      "n", "o", "p", "q", "r", "s", "t", "u", "v", "w", "x", "y", "z">>

\* the number of characters randomName appends
NameLength == 5

\* the attempt budget of the relationship loop
AttemptLimit == 1000

\* the values Math.floor(Math.random() * n) can take for an integer n >= 0
\* (Math.random() is in [0, 1), and anything times 0 is 0)
RandomIndex(n) == IF n = 0 THEN {0} ELSE 0..(n - 1)

\* randomName(), given the five indices its calls of Math.random produce
randomName(draws) == [i \in 1..NameLength |-> NameChars[draws[i] + 1]]

\* the outcomes of randomName's five draws that the model follows
NameDraws == {<<0, 1, 2, 3, 4>>, <<25, 24, 23, 22, 21>>}

\* the arguments the model calls generateRandomConfig with
GenSpeciesCounts == 0..2
GenIndividuals == {0, 2}
GenRelationshipCounts == {0, 1, 3}
GenCapacities == {2}

\* the template literal `${predIdx}-${preyIdx}`
PairKey(predIdx, preyIdx) == NumberToString(predIdx) \o <<"-">> \o NumberToString(preyIdx)

InitGen ==
    /\ config = <<>>
    /\ pc = "ready"
    /\ program = <<>>
    /\ stack = <<>>
    /\ proofs = <<>>
    /\ solutions = <<>>
    /\ returned = <<>>
    /\ lines = <<>>
    /\ parsed = [threw |-> FALSE, steps |-> <<>>]
    /\ verdict = "none"
    /\ gen = NotGenerating
    /\ session = NewSession
    /\ suspended = NoOtherCall
    /\ modal = NoModal
    /\ task = NoTask

\* the call, the species loop and the initialisation of the relationship loop
GenerateRandomConfig ==
    /\ gen.pc = "idle"
    /\ \E numSpecies \in GenSpeciesCounts, numIndividualsPerSpecies \in GenIndividuals,
          numRelationships \in GenRelationshipCounts, starshipCapacity \in GenCapacities :
          \E draws \in [1..numSpecies -> NameDraws] :
              gen' = [pc |-> "loop",
                      numSpecies |-> numSpecies,
                      numRelationships |-> numRelationships,
                      starshipCapacity |-> starshipCapacity,
                      species |-> [i \in 1..numSpecies |->
                                      [name |-> randomName(draws[i]),
                                       count |-> numIndividualsPerSpecies]],
                      relationships |-> <<>>,
                      usedPairs |-> {},
                      attempts |-> 0,
                      predIdx |-> -1,
                      preyIdx |-> -1]
    /\ UNCHANGED <<config, pc, program, stack, proofs, solutions, returned, lines, parsed,
                   verdict, session, suspended, modal, task>>

\* the outer while holds: attempts++, predIdx and preyIdx are drawn
Attempt ==
    /\ gen.pc = "loop"
    /\ Len(gen.relationships) < gen.numRelationships
    /\ gen.attempts < AttemptLimit
    /\ \E predIdx \in RandomIndex(gen.numSpecies), preyIdx \in RandomIndex(gen.numSpecies) :
          gen' = [gen EXCEPT !.pc = "drawn", !.attempts = @ + 1,
                             !.predIdx = predIdx, !.preyIdx = preyIdx]
    /\ UNCHANGED <<config, pc, program, stack, proofs, solutions, returned, lines, parsed,
                   verdict, session, suspended, modal, task>>

\* the inner while holds: preyIdx is drawn again
Redraw ==
    /\ gen.pc = "drawn"
    /\ gen.preyIdx = gen.predIdx
    /\ \E preyIdx \in RandomIndex(gen.numSpecies) : gen' = [gen EXCEPT !.preyIdx = preyIdx]
    /\ UNCHANGED <<config, pc, program, stack, proofs, solutions, returned, lines, parsed,
                   verdict, session, suspended, modal, task>>

\* the inner while is left: the pair is recorded unless its key was used; reading
\* .name of a species that does not exist raises a TypeError
Record ==
    /\ gen.pc = "drawn"
    /\ gen.preyIdx # gen.predIdx
    /\ LET key == PairKey(gen.predIdx, gen.preyIdx)
       IN  IF key \in gen.usedPairs
           THEN gen' = [gen EXCEPT !.pc = "loop", !.predIdx = -1, !.preyIdx = -1]
           ELSE IF {gen.predIdx + 1, gen.preyIdx + 1} \subseteq DOMAIN gen.species
           THEN gen' = [gen EXCEPT !.pc = "loop", !.predIdx = -1, !.preyIdx = -1,
                                   !.usedPairs = @ \cup {key},
                                   !.relationships =
                                       Append(@, [predator |-> gen.species[gen.predIdx + 1].name,
                                                  prey |-> gen.species[gen.preyIdx + 1].name])]
           ELSE gen' = [gen EXCEPT !.pc = "threw", !.usedPairs = @ \cup {key}]
    /\ UNCHANGED <<config, pc, program, stack, proofs, solutions, returned, lines, parsed,
                   verdict, session, suspended, modal, task>>

\* the outer while fails: the config object is returned
Return ==
    /\ gen.pc = "loop"
    /\ ~(Len(gen.relationships) < gen.numRelationships /\ gen.attempts < AttemptLimit)
    /\ gen' = [gen EXCEPT !.pc = "returned"]
    /\ config' = [species |-> gen.species,
                  relationships |-> gen.relationships,
                  starshipCapacity |-> gen.starshipCapacity]
    /\ UNCHANGED <<pc, program, stack, proofs, solutions, returned, lines, parsed, verdict,
                   session, suspended, modal, task>>

NextGen ==
    \/ GenerateRandomConfig
    \/ Attempt
    \/ Redraw
    \/ Record
    \/ Return

SpecGen == InitGen /\ [][NextGen]_vars

\* solveProblem awaits the engine, which runs the query to its last answer: each
\* step of the search that can be taken is eventually taken
FairSpec ==
    /\ Spec
    /\ WF_vars(SolveProblem)
    /\ WF_vars(Answer)
    /\ WF_vars(NotFinal)
    /\ WF_vars(Extend)
    /\ WF_vars(Backtrack)
    /\ WF_vars(NoMoreAnswers)

----------------------------------------------------------------------------
(* path/3 and solve_solution/1 as the sequence of their answers, and the    *)
(* array solveProblem builds from them when nothing disturbs the call.     *)

RECURSIVE path(_, _, _)
RECURSIVE pathThrough(_, _, _, _, _)

\* every answer of `rest` with the term move(Move, State, NextState) in front
consMove(term, rest) == [i \in 1..Len(rest) |-> <<term>> \o rest[i]]

\* the answers of the second clause of path/3 that come from the answers of
\* transition_with_move(State, Move, NextState) numbered j and above
pathThrough(prog, State, Seen, alts, j) ==
    IF j > Len(alts) THEN <<>>
    ELSE (IF not_member(alts[j].next, Seen)
          THEN consMove([move |-> alts[j].move, before |-> State, after |-> alts[j].next],
                        path(prog, alts[j].next, <<alts[j].next>> \o Seen))
          ELSE <<>>)
         \o pathThrough(prog, State, Seen, alts, j + 1)

\* the answers of path(State, Visited, Moves), Seen standing for Visited: first clause, then second
path(prog, State, Seen) ==
    (IF State = prog.final_state THEN << <<>> >> ELSE <<>>)
    \o pathThrough(prog, State, Seen, transition_with_move(prog, State), 1)

\* the answers of solve_solution(Solution)
solve_solution(prog) == path(prog, prog.initial_state, <<prog.initial_state>>)

\* the texts gatherAnswers pushes, one per answer
gatherAnswers(answers, species) ==
    [i \in 1..Len(answers) |-> solutionToHumanReadableList(answers[i], species)]

\* the array a call solveProblem(cfg) returns when it is the only call
solveProblemAlone(cfg) == gatherAnswers(solve_solution(generatePrologCode(cfg)), cfg.species)

\* what a call checkUserSolution(generatePrologCode(cfg), cfg, solutionLines) does
\* when it is the only call
checkUserSolutionAlone(cfg, solutionLines) ==
    queryOutcome(generatePrologCode(cfg), parseSolutionLines(cfg, solutionLines))

----------------------------------------------------------------------------
(* solveProblem with a session that may report an error: at consult, at    *)
(* query, or at any step towards the next answer.  Whether and when the    *)
(* library reports one is an input.                                        *)

\* the catch block hands the solutions gathered so far to the caller
gatheredSoFar(gathered) == gathered

\* what the caller receives of `solutions` when the catch block rethrows: nothing
rethrown(gathered) == <<>>

\* generatePrologCode, pl.create, session.consult: success resolves the promise
ConsultSucceeds ==
    /\ pc = "ready"
    /\ pc' = "consulted"
    /\ program' = generatePrologCode(config)
    /\ session' = [session EXCEPT !.consults = @ + 1]
    /\ UNCHANGED <<config, stack, proofs, solutions, returned, lines, parsed, verdict, gen, suspended, modal, task>>

\* session.consult reports an error: reject, catch, rethrow
ConsultFails ==
    /\ pc = "ready"
    /\ pc' = "rejected"
    /\ program' = generatePrologCode(config)
    /\ session' = [session EXCEPT !.consults = @ + 1, !.error = "Consult error"]
    /\ returned' = rethrown(solutions)
    /\ UNCHANGED <<config, stack, proofs, solutions, lines, parsed, verdict, gen, suspended, modal, task>>

\* session.query("solve_solution(Sol)."): initial_state(Initial),
\* path(Initial, [Initial], Solution)
QuerySucceeds ==
    /\ pc = "consulted"
    /\ pc' = "answering"
    /\ stack' = <<Frame(program.initial_state, <<>>)>>
    /\ session' = [session EXCEPT !.queries = @ + 1]
    /\ UNCHANGED <<config, program, proofs, solutions, returned, lines, parsed, verdict, gen, suspended, modal, task>>

\* session.query reports an error
QueryFails ==
    /\ pc = "consulted"
    /\ pc' = "rejected"
    /\ session' = [session EXCEPT !.queries = @ + 1, !.error = "Query error"]
    /\ returned' = rethrown(solutions)
    /\ UNCHANGED <<config, program, stack, proofs, solutions, lines, parsed, verdict, gen, suspended, modal, task>>

\* session.answer reports an error instead of an answer
AnswerFails ==
    /\ pc = "answering"
    /\ pc' = "rejected"
    /\ session' = [session EXCEPT !.error = "Answer error"]
    /\ returned' = rethrown(solutions)
    /\ UNCHANGED <<config, program, stack, proofs, solutions, lines, parsed, verdict, gen, suspended, modal, task>>

NextFaulty ==
    \/ ConsultSucceeds
    \/ ConsultFails
    \/ QuerySucceeds
    \/ QueryFails
    \/ Answer
    \/ NotFinal
    \/ Extend
    \/ Backtrack
    \/ AnswerFails
    \/ NoMoreAnswers

SpecFaulty == Init /\ [][NextFaulty]_vars

----------------------------------------------------------------------------
(* Two calls on one event loop.  The variables config .. session are the   *)
(* locals of the call whose callback runs; `suspended` holds the locals of *)
(* the call that waits.  Every await and every callback of the library is a *)
(* point where the event loop may run the other call.                      *)

\* the locals of a call that has not started
FreshCall(cfg) ==
    [config |-> cfg, pc |-> "ready", program |-> <<>>, stack |-> <<>>, proofs |-> <<>>,
     solutions |-> <<>>, returned |-> <<>>, lines |-> <<>>,
     parsed |-> [threw |-> FALSE, steps |-> <<>>], verdict |-> "none", session |-> NewSession]

\* the locals of the call that runs
Running ==
    [config |-> config, pc |-> pc, program |-> program, stack |-> stack, proofs |-> proofs,
     solutions |-> solutions, returned |-> returned, lines |-> lines,
     parsed |-> parsed, verdict |-> verdict, session |-> session]

\* `solutions` as one array of the module, which every call pushes to
solutionsOfModule(call) == solutions

\* `solutions` of the call that resumes: `const solutions = []` inside solveProblem
solutionsOfCall(call) == call.solutions

TwoCallConfigs ==
    {MakeConfig(<<NameA>>, <<1>>, <<>>, 1), MakeConfig(<<NameA>>, <<2>>, <<>>, 2), Scenario2}

TwoCallCandidates(cfg) == {<<>>} \cup {<<line>> : line \in CandidateLines(cfg)}

InitTwoCalls ==
    /\ config \in TwoCallConfigs
    /\ pc = "ready"
    /\ program = <<>>
    /\ stack = <<>>
    /\ proofs = <<>>
    /\ solutions = <<>>
    /\ returned = <<>>
    /\ lines = <<>>
    /\ parsed = [threw |-> FALSE, steps |-> <<>>]
    /\ verdict = "none"
    /\ gen = NotGenerating
    /\ session = NewSession
    /\ suspended \in {FreshCall(cfg) : cfg \in TwoCallConfigs}
    /\ modal = NoModal
    /\ task = NoTask

\* checkUserSolution up to its first await: parseSolutionLines (which may throw),
\* pl.create, session.consult
CheckBegin ==
    /\ pc = "ready"
    /\ \E solutionLines \in TwoCallCandidates(config) :
          /\ lines' = solutionLines
          /\ parsed' = parseSolutionLines(config, solutionLines)
    /\ IF parsed'.threw
       THEN pc' = "checked" /\ verdict' = "threw" /\ session' = session
       ELSE pc' = "checking" /\ verdict' = verdict
            /\ session' = [session EXCEPT !.consults = @ + 1]
    /\ UNCHANGED <<config, program, stack, proofs, solutions, returned, gen, suspended, modal, task>>

\* checkUserSolution after the consult: the query, its first answer, return isValid
CheckEnd ==
    /\ pc = "checking"
    /\ pc' = "checked"
    /\ verdict' = queryOutcome(generatePrologCode(config), parsed)
    /\ session' = [session EXCEPT !.queries = @ + 1]
    /\ UNCHANGED <<config, program, stack, proofs, solutions, returned, lines, parsed, gen, suspended, modal, task>>

\* the event loop leaves the running call at an await and runs the other one
Switch ==
    /\ suspended' = Running
    /\ config' = suspended.config
    /\ pc' = suspended.pc
    /\ program' = suspended.program
    /\ stack' = suspended.stack
    /\ proofs' = suspended.proofs
    /\ solutions' = solutionsOfCall(suspended)
    /\ returned' = suspended.returned
    /\ lines' = suspended.lines
    /\ parsed' = suspended.parsed
    /\ verdict' = suspended.verdict
    /\ session' = suspended.session
    /\ UNCHANGED <<gen, modal, task>>

NextTwoCalls ==
    \/ ConsultSucceeds
    \/ QuerySucceeds
    \/ Answer
    \/ NotFinal
    \/ Extend
    \/ Backtrack
    \/ NoMoreAnswers
    \/ CheckBegin
    \/ CheckEnd
    \/ Switch

SpecTwoCalls == InitTwoCalls /\ [][NextTwoCalls]_vars

----------------------------------------------------------------------------
(* solveProblem, and then checkUserSolution on any candidate for the same  *)
(* configuration: the caller compares what is accepted with what was       *)
(* enumerated.                                                             *)

SolveThenVerifyConfigs ==
    {MakeConfig(<<NameA>>, <<1>>, <<>>, 1),
     MakeConfig(<<NameA>>, <<2>>, <<>>, 1),
     MakeConfig(<<NameA>>, <<2>>, <<>>, 2),
     MakeConfig(<<NameCross>>, <<2>>, <<>>, 2)}

InitSolveThenVerify ==
    /\ config \in SolveThenVerifyConfigs
    /\ pc = "ready"
    /\ program = <<>>
    /\ stack = <<>>
    /\ proofs = <<>>
    /\ solutions = <<>>
    /\ returned = <<>>
    /\ lines = <<>>
    /\ parsed = [threw |-> FALSE, steps |-> <<>>]
    /\ verdict = "none"
    /\ gen = NotGenerating
    /\ session = NewSession
    /\ suspended = NoOtherCall
    /\ modal = NoModal
    /\ task = NoTask

\* once solveProblem has returned, a caller hands any candidate to checkUserSolution
CheckAfterSolve ==
    /\ pc = "returned"
    /\ \E solutionLines \in Candidates(config) : checkUserSolution(solutionLines)

NextSolveThenVerify ==
    \/ SolveProblem
    \/ Answer
    \/ NotFinal
    \/ Extend
    \/ Backtrack
    \/ NoMoreAnswers
    \/ CheckAfterSolve

SpecSolveThenVerify == InitSolveThenVerify /\ [][NextSolveThenVerify]_vars

----------------------------------------------------------------------------
(* solveProblem and then checkUserSolution on configurations of one        *)
(* species: nobody to carry, one step, three steps.                        *)

OneSpeciesConfigs ==
    {MakeConfig(<<NameA>>, <<0>>, <<>>, 1),
     MakeConfig(<<NameA>>, <<0>>, <<>>, 2),
     MakeConfig(<<NameA>>, <<1>>, <<>>, 1),
     MakeConfig(<<NameA>>, <<2>>, <<>>, 2),
     MakeConfig(<<NameA>>, <<3>>, <<>>, 2)}

InitOneSpecies ==
    /\ config \in OneSpeciesConfigs
    /\ pc = "ready"
    /\ program = <<>>
    /\ stack = <<>>
    /\ proofs = <<>>
    /\ solutions = <<>>
    /\ returned = <<>>
    /\ lines = <<>>
    /\ parsed = [threw |-> FALSE, steps |-> <<>>]
    /\ verdict = "none"
    /\ gen = NotGenerating
    /\ session = NewSession
    /\ suspended = NoOtherCall
    /\ modal = NoModal
    /\ task = NoTask

SpecOneSpecies == InitOneSpecies /\ [][NextSolveThenVerify]_vars

----------------------------------------------------------------------------
(* solveProblem and then checkUserSolution on configurations whose initial *)
(* state has a prey species outnumbered on the start bank.                 *)

\* most lines of a candidate handed to checkUserSolution for these configurations
MaxOutnumberedLines == 2

\* a(1), b(2), (predator b, prey a), capacity c
Outnumbered(c) == MakeConfig(<<NameA, NameB>>, <<1, 2>>, <<<<2, 1>>>>, c)

\* the same species and capacities with the prey not outnumbered: a(2), b(1)
NotOutnumbered(c) == MakeConfig(<<NameA, NameB>>, <<2, 1>>, <<<<2, 1>>>>, c)

OutnumberedConfigs == {Outnumbered(1), Outnumbered(2), Outnumbered(3), NotOutnumbered(3)}

OutnumberedCandidates(cfg) == UNION {[1..k -> CandidateLines(cfg)] : k \in 0..MaxOutnumberedLines}

InitOutnumbered ==
    /\ config \in OutnumberedConfigs
    /\ pc = "ready"
    /\ program = <<>>
    /\ stack = <<>>
    /\ proofs = <<>>
    /\ solutions = <<>>
    /\ returned = <<>>
    /\ lines = <<>>
    /\ parsed = [threw |-> FALSE, steps |-> <<>>]
    /\ verdict = "none"
    /\ gen = NotGenerating
    /\ session = NewSession
    /\ suspended = NoOtherCall
    /\ modal = NoModal
    /\ task = NoTask

\* once solveProblem has returned, a caller hands a candidate to checkUserSolution
CheckOutnumbered ==
    /\ pc = "returned"
    /\ \E solutionLines \in OutnumberedCandidates(config) : checkUserSolution(solutionLines)

NextOutnumbered ==
    \/ SolveProblem
    \/ Answer
    \/ NotFinal
    \/ Extend
    \/ Backtrack
    \/ NoMoreAnswers
    \/ CheckOutnumbered

SpecOutnumbered == InitOutnumbered /\ [][NextOutnumbered]_vars

----------------------------------------------------------------------------
(* The puzzle as spec.md states it (sections 1, 3 and 5), written over the  *)
(* configuration alone; the properties compare the program with it.        *)

speciesIndex(cfg, name) == CHOOSE i \in 1..Len(cfg.species) : cfg.species[i].name = name

InitialState(cfg) ==
    [counts |-> [i \in 1..Len(cfg.species) |-> cfg.species[i].count], side |-> "start"]

FinalState(cfg) == [counts |-> [i \in 1..Len(cfg.species) |-> 0], side |-> "target"]

\* on a bank no prey is outnumbered by its predator, unless the prey is absent
BankSafe(cfg, bank) ==
    \A k \in 1..Len(cfg.relationships) :
        \/ bank[speciesIndex(cfg, cfg.relationships[k].prey)] = 0
        \/ bank[speciesIndex(cfg, cfg.relationships[k].prey)]
              >= bank[speciesIndex(cfg, cfg.relationships[k].predator)]

TargetBank(cfg, counts) == [i \in 1..Len(cfg.species) |-> cfg.species[i].count - counts[i]]

StateSafe(cfg, S) == BankSafe(cfg, S.counts) /\ BankSafe(cfg, TargetBank(cfg, S.counts))

\* a load of the shuttle: one amount per species, 1 to capacity passengers in all
LegalMove(cfg, m) ==
    /\ DOMAIN m = 1..Len(cfg.species)
    /\ \A i \in 1..Len(cfg.species) : m[i] \in 0..cfg.starshipCapacity
    /\ SumSeq(m) >= 1
    /\ SumSeq(m) <= cfg.starshipCapacity

StepResult(S, m) ==
    IF S.side = "start"
    THEN [counts |-> [i \in DOMAIN m |-> S.counts[i] - m[i]], side |-> "target"]
    ELSE [counts |-> [i \in DOMAIN m |-> S.counts[i] + m[i]], side |-> "start"]

WithinPopulation(cfg, S) == \A i \in 1..Len(cfg.species) : S.counts[i] \in 0..cfg.species[i].count

LegalStep(cfg, S, m) ==
    /\ LegalMove(cfg, m)
    /\ WithinPopulation(cfg, StepResult(S, m))
    /\ StateSafe(cfg, StepResult(S, m))

MoveVectors(cfg) ==
    {m \in [1..Len(cfg.species) -> 0..cfg.starshipCapacity] : LegalMove(cfg, m)}

\* the cycle-free legal sequences that extend `sofar` from S to the final state
RECURSIVE CycleFreeFrom(_, _, _, _)
CycleFreeFrom(cfg, S, seen, sofar) ==
    IF S = FinalState(cfg) THEN {sofar}
    ELSE UNION {CycleFreeFrom(cfg, StepResult(S, m), seen \cup {StepResult(S, m)},
                              Append(sofar, [move |-> m, before |-> S, after |-> StepResult(S, m)])) :
                m \in {v \in MoveVectors(cfg) :
                          LegalStep(cfg, S, v) /\ StepResult(S, v) \notin seen}}

CycleFreeSolutions(cfg) == CycleFreeFrom(cfg, InitialState(cfg), {InitialState(cfg)}, <<>>)

\* the states a solution term passes through, the initial state first
StatesOf(p) == IF Len(p) = 0 THEN <<>> ELSE <<p[1].before>> \o [k \in 1..Len(p) |-> p[k].after]

\* replaying steps k.. from S: declared direction matches the side, every step is
\* legal, and the replay ends in the final state
RECURSIVE Replay(_, _, _, _)
Replay(cfg, steps, k, S) ==
    IF k > Len(steps) THEN S = FinalState(cfg)
    ELSE /\ steps[k].direction = (IF S.side = "start" THEN "leftToRight" ELSE "rightToLeft")
         /\ LegalStep(cfg, S, steps[k].amounts)
         /\ Replay(cfg, steps, k + 1, StepResult(S, steps[k].amounts))

ReachesFinal(cfg, steps) == Replay(cfg, steps, 1, InitialState(cfg))

\* the proper prefixes of the supplied steps that already reach the final state
FinalPrefixes(cfg, steps) ==
    {k \in 0..(Len(steps) - 1) : ReachesFinal(cfg, SubSeq(steps, 1, k))}

RECURSIVE StateSpaceSize(_, _)
StateSpaceSize(cfg, i) ==
    IF i > Len(cfg.species) THEN 2 ELSE (cfg.species[i].count + 1) * StateSpaceSize(cfg, i + 1)

----------------------------------------------------------------------------
(* The codec on its own: moveToSentence on one move term, then             *)
(* parseSolutionLines on the line it produced.                             *)

\* the two (old side, new side) pairs a move term can carry
MoveDirections == {<<"start", "target">>, <<"target", "start">>}

\* move(MoveList, state(_, OldSide), state(_, NewSide)); the codec reads the sides only
codecTerm(cfg, m, d) ==
    [move |-> m,
     before |-> [counts |-> InitCounts(cfg), side |-> d[1]],
     after |-> [counts |-> InitCounts(cfg), side |-> d[2]]]

\* the move terms of a configuration: a legal move and a direction
CodecTerms(cfg) ==
    {codecTerm(cfg, generateAllowedMoves(Len(cfg.species), EffectiveCapacity(cfg))[k], d) :
        k \in 1..Len(generateAllowedMoves(Len(cfg.species), EffectiveCapacity(cfg))),
        d \in MoveDirections}

InitCodec ==
    /\ config \in Configs
    /\ pc = "ready"
    /\ program = <<>>
    /\ stack = <<>>
    /\ \E term \in CodecTerms(config) : proofs = <<<<term>>>>
    /\ solutions = <<>>
    /\ returned = <<>>
    /\ lines = <<>>
    /\ parsed = [threw |-> FALSE, steps |-> <<>>]
    /\ verdict = "none"
    /\ gen = NotGenerating
    /\ session = NewSession
    /\ suspended = NoOtherCall
    /\ modal = NoModal
    /\ task = NoTask

\* solutionToHumanReadableList on the one-move term
EncodeMove ==
    /\ pc = "ready"
    /\ lines' = solutionToHumanReadableList(proofs[1], config.species)
    /\ pc' = "encoded"
    /\ UNCHANGED <<config, program, stack, proofs, solutions, returned, parsed, verdict, gen,
                   session, suspended, modal, task>>

\* parseSolutionLines on the encoded line
DecodeLines ==
    /\ pc = "encoded"
    /\ parsed' = parseSolutionLines(config, lines)
    /\ pc' = "decoded"
    /\ UNCHANGED <<config, program, stack, proofs, solutions, returned, lines, verdict, gen,
                   session, suspended, modal, task>>

NextCodec ==
    \/ EncodeMove
    \/ DecodeLines

SpecCodec == InitCodec /\ [][NextCodec]_vars

----------------------------------------------------------------------------
(* LLMReasoningBenchmarkModal.logTaskStatus                                *)
(* (src/web-components/llm-reasoning-benchmark-modal/                      *)
(* llm-reasoning-benchmark-modal.js).  The modal holds this.config and     *)
(* this.prologProgram = generatePrologCode(this.config); the documents are *)
(* the space's documents as the document module returns them:              *)
(*   [title, chapters: <<[paragraphs: <<[text]>>]>>]                       *)
(* and a document's id is its position in the list.                        *)

\* most task notifications the modal receives
MaxNotifications == 2

LLM_REASONING_DOCUMENT_TITLE == "llm_reasoning_document"

CorrectText ==
    <<"T", "h", "e", " ", "s", "o", "l", "u", "t", "i", "o", "n", " ", "p", "r", "o",
      "v", "i", "d", "e", "d", " ", "i", "s", " ", "c", "o", "r", "r", "e", "c", "t",
      ".">>

IncorrectText ==
    <<"T", "h", "e", " ", "s", "o", "l", "u", "t", "i", "o", "n", " ", "p", "r", "o",
      "v", "i", "d", "e", "d", " ", "i", "s", " ", "i", "n", "c", "o", "r", "r", "e",
      "c", "t", ".">>

\* "[^"]*" : the position of the closing quote that follows position j - 1, 0 when none
RECURSIVE ClosingQuote(_, _)
ClosingQuote(str, j) ==
    IF j > Len(str) THEN 0
    ELSE IF str[j] = "\"" THEN j
    ELSE ClosingQuote(str, j + 1)

\* a string literal of the pattern that starts at position i: where it ends, 0 when none
QuotedEnd(str, i) == IF i <= Len(str) /\ str[i] = "\"" THEN ClosingQuote(str, i + 1) ELSE 0

\* \s of the pattern: the characters of the model's texts it matches
IsPatternSpace(ch) == ch \in {" ", "\n"}

\* \s* from position i: the position after the run
RECURSIVE AfterSpaces(_, _)
AfterSpaces(str, i) ==
    IF i <= Len(str) /\ IsPatternSpace(str[i]) THEN AfterSpaces(str, i + 1) ELSE i

RECURSIVE QuotedListEnd(_, _)
\* (?:\s*,\s*"[^"]*")* after a literal that ends at e: the end of the last literal taken
MoreQuoted(str, e, comma) ==
    IF comma <= Len(str) /\ str[comma] = "," /\ QuotedEnd(str, AfterSpaces(str, comma + 1)) # 0
    THEN QuotedListEnd(str, AfterSpaces(str, comma + 1))
    ELSE e

\* "[^"]*"(?:\s*,\s*"[^"]*")* from position i: the end of the last literal, 0 when none
QuotedListEnd(str, i) ==
    IF QuotedEnd(str, i) = 0 THEN 0
    ELSE MoreQuoted(str, QuotedEnd(str, i), AfterSpaces(str, QuotedEnd(str, i) + 1))

\* the pattern \[\s*(...)\s*\] at position i of str
ArrayAt(str, i) ==
    /\ str[i] = "["
    /\ QuotedListEnd(str, AfterSpaces(str, i + 1)) # 0
    /\ AfterSpaces(str, QuotedListEnd(str, AfterSpaces(str, i + 1)) + 1) <= Len(str)
    /\ str[AfterSpaces(str, QuotedListEnd(str, AfterSpaces(str, i + 1)) + 1)] = "]"

\* match[1] of the match at position i
ArrayGroup(str, i) ==
    SubSeq(str, AfterSpaces(str, i + 1), QuotedListEnd(str, AfterSpaces(str, i + 1)))

\* what an escape sequence \x of a JSON string stands for
JsonEscapes == [x \in {"\"", "\\", "/", "n", "t"} |->
                   IF x = "n" THEN "\n" ELSE IF x = "t" THEN "\t" ELSE x]

NotJson == [ok |-> FALSE, text |-> <<>>]

\* the character ch in front of the rest of a string's value
ValueWith(ch, rest) == IF rest.ok THEN [ok |-> TRUE, text |-> <<ch>> \o rest.text] ELSE NotJson

\* the value JSON.parse gives the string literal whose characters between the
\* quotes are c, from position i on: control characters and unknown escapes are
\* syntax errors (a \u escape needs four hex digits, which no text here has)
RECURSIVE JsonStringValue(_, _)
JsonStringValue(c, i) ==
    IF i > Len(c) THEN [ok |-> TRUE, text |-> <<>>]
    ELSE IF c[i] \in {"\n", "\t"} THEN NotJson
    ELSE IF c[i] = "\\"
         THEN IF i + 1 <= Len(c) /\ c[i + 1] \in DOMAIN JsonEscapes
              THEN ValueWith(JsonEscapes[c[i + 1]], JsonStringValue(c, i + 2))
              ELSE NotJson
    ELSE ValueWith(c[i], JsonStringValue(c, i + 1))

NoArray == [ok |-> FALSE, array |-> <<>>]

\* the array with value first in front of rest
ArrayWith(first, rest) ==
    IF first.ok /\ rest.ok THEN [ok |-> TRUE, array |-> <<first.text>> \o rest.array] ELSE NoArray

\* JSON.parse(`[${match[1]}]`) for a group the pattern matched, from the literal
\* that starts at position i: [ok, array], ok FALSE where JSON.parse throws
RECURSIVE JsonStrings(_, _)
JsonStrings(group, i) ==
    IF i > Len(group) THEN [ok |-> TRUE, array |-> <<>>]
    ELSE ArrayWith(JsonStringValue(SubSeq(group, i + 1, QuotedEnd(group, i) - 1), 1),
                   IF AfterSpaces(group, QuotedEnd(group, i) + 1) > Len(group)
                   THEN [ok |-> TRUE, array |-> <<>>]
                   ELSE JsonStrings(group,
                                    AfterSpaces(group, AfterSpaces(group, QuotedEnd(group, i) + 1) + 1)))

\* extractArrayFromString(str): [ok, array], ok FALSE where it throws
\* ("No array found in the string." or JSON.parse's SyntaxError)
extractArrayFromString(str) ==
    IF \E i \in 1..Len(str) : ArrayAt(str, i)
    THEN JsonStrings(ArrayGroup(str, CHOOSE i \in 1..Len(str) :
                                        ArrayAt(str, i) /\ \A j \in 1..(i - 1) : ~ArrayAt(str, j)), 1)
    ELSE NoArray

\* the paragraphs a language model may have left as its answer for a(2), capacity 2
AnswerCorrect ==
    <<"P", "l", "a", "n", ":", " ", "[", "\"", "2", " ", "a", " ", "c", "r", "o", "s",
      "s", " ", "l", "e", "f", "t", " ", "-", ">", " ", "r", "i", "g", "h", "t", "\"",
      "]", " ", "d", "o", "n", "e">>

AnswerThreeLines ==
    <<"[", " ", "\"", "1", " ", "a", " ", "c", "r", "o", "s", "s", " ", "l", "e", "f",
      "t", " ", "-", ">", " ", "r", "i", "g", "h", "t", "\"", ",", "\n", "\"", "1",
      " ", "a", " ", "c", "r", "o", "s", "s", " ", "r", "i", "g", "h", "t", " ", "-",
      ">", " ", "l", "e", "f", "t", "\"", ",", "\n", "\"", "2", " ", "a", " ", "c",
      "r", "o", "s", "s", " ", "l", "e", "f", "t", " ", "-", ">", " ", "r", "i", "g",
      "h", "t", "\"", " ", "]">>

AnswerWrong ==
    <<"[", "\"", "1", " ", "a", " ", "c", "r", "o", "s", "s", " ", "l", "e", "f", "t",
      " ", "-", ">", " ", "r", "i", "g", "h", "t", "\"", "]">>

AnswerUndecodable ==
    <<"[", "\"", "2", " ", "a", " ", "f", "l", "y", " ", "l", "e", "f", "t", " ", "-",
      ">", " ", "r", "i", "g", "h", "t", "\"", "]">>

AnswerBadEscape ==
    <<"[", "\"", "2", " ", "a", " ", "c", "r", "o", "s", "s", " ", "l", "e", "f", "t",
      " ", "-", "\\", ">", " ", "r", "i", "g", "h", "t", "\"", "]">>

AnswerNoArray ==
    <<"I", " ", "s", "e", "e", " ", "n", "o", " ", "w", "a", "y", " ", "t", "o", " ",
      "d", "o", " ", "i", "t", " ", "[", "]", ".">>

AnswerTexts ==
    {AnswerCorrect, AnswerThreeLines, AnswerWrong, AnswerUndecodable, AnswerBadEscape,
     AnswerNoArray}

\* the chapter a run of the task leaves: the paragraph "Solution", then the answer
RunChapter(answer) == [paragraphs |-> <<[text |-> <<"S", "o", "l", "u", "t", "i", "o", "n">>],
                                         [text |-> answer]>>]

ReasoningDocument(chapters) == [title |-> LLM_REASONING_DOCUMENT_TITLE, chapters |-> chapters]

\* a document another task of the space saved (src/tasks/SolveReasoningProblem.js:257)
OtherDocument(answer) == [title |-> "bias_analysis", chapters |-> <<RunChapter(answer)>>]

\* what getDocumentsMetadata can return when the notification arrives
DocumentLists ==
    {<<>>, <<OtherDocument(AnswerCorrect)>>,
     <<ReasoningDocument(<<>>)>>,
     <<ReasoningDocument(<<[paragraphs |-> <<>>]>>)>>}
    \cup {<<ReasoningDocument(<<RunChapter(answer)>>)>> : answer \in AnswerTexts}
    \cup {<<OtherDocument(AnswerWrong), ReasoningDocument(<<RunChapter(AnswerWrong), RunChapter(answer)>>)>> :
            answer \in AnswerTexts}

TaskStatuses == {"completed", "failed", "running"}

\* this.config: the answers above are written for a(2), capacity 2; for a(1),
\* capacity 1 the one line of AnswerWrong is the solution
ModalConfigs == {MakeConfig(<<NameA>>, <<2>>, <<>>, 2), MakeConfig(<<NameA>>, <<1>>, <<>>, 1)}

InitModal ==
    /\ config \in ModalConfigs
    /\ pc = "ready"
    /\ program = generatePrologCode(config)
    /\ stack = <<>>
    /\ proofs = <<>>
    /\ solutions = <<>>
    /\ returned = <<>>
    /\ lines = <<>>
    /\ parsed = [threw |-> FALSE, steps |-> <<>>]
    /\ verdict = "none"
    /\ gen = NotGenerating
    /\ session = NewSession
    /\ suspended = NoOtherCall
    /\ \E documents \in DocumentLists :
          modal = [pc |-> "subscribed", documents |-> documents, documentId |-> 0,
                   notifications |-> 0, completed |-> 0, added |-> <<>>, rejected |-> FALSE]
    /\ task = NoTask

\* documents.find(doc => doc.title === LLM_REASONING_DOCUMENT_TITLE): its position, 0 when undefined
FindDocument(documents) ==
    IF \E d \in 1..Len(documents) : documents[d].title = LLM_REASONING_DOCUMENT_TITLE
    THEN CHOOSE d \in 1..Len(documents) :
            /\ documents[d].title = LLM_REASONING_DOCUMENT_TITLE
            /\ \A e \in 1..(d - 1) : documents[e].title # LLM_REASONING_DOCUMENT_TITLE
    ELSE 0

\* documentModule.addParagraph(spaceId, documentId, chapterId, paragraphObj)
addParagraph(documents, documentId, chapterId, paragraphObj) ==
    [documents EXCEPT ![documentId].chapters[chapterId].paragraphs = Append(@, paragraphObj)]

\* the try block up to the call of checkUserSolution: [reached, lines]; reached is FALSE when the text could
\* not be read or extractArrayFromString threw before checkUserSolution was called
TryBlock(paragraphs) ==
    IF Len(paragraphs) = 0 THEN [reached |-> FALSE, lines |-> <<>>]
    ELSE IF ~extractArrayFromString(paragraphs[Len(paragraphs)].text).ok
         THEN [reached |-> FALSE, lines |-> <<>>]
    ELSE [reached |-> TRUE, lines |-> extractArrayFromString(paragraphs[Len(paragraphs)].text).array]

\* `The solution provided is correct.` when solutionIsValid, else `... incorrect.`
VerdictParagraph(solutionIsValid) ==
    [text |-> IF solutionIsValid THEN CorrectText ELSE IncorrectText]

\* the promise of logTaskStatus rejects with a TypeError before the try block;
\* documentId is what this.documentId holds by then
Rejects(documentId) ==
    /\ modal' = [modal EXCEPT !.notifications = @ + 1, !.completed = @ + 1, !.rejected = TRUE,
                              !.documentId = documentId]
    /\ lines' = <<>>
    /\ parsed' = [threw |-> FALSE, steps |-> <<>>]
    /\ verdict' = "none"

\* the rest of the handler once document and lastChapter are there
Verdicts(documentId, attempt) ==
    /\ lines' = attempt.lines
    /\ parsed' = IF attempt.reached THEN parseSolutionLines(config, attempt.lines)
                 ELSE [threw |-> FALSE, steps |-> <<>>]
    /\ verdict' = IF attempt.reached THEN queryOutcome(program, parsed') ELSE "none"
    /\ modal' = [modal EXCEPT
                    !.notifications = @ + 1,
                    !.completed = @ + 1,
                    !.documentId = documentId,
                    !.documents = addParagraph(@, documentId, Len(@[documentId].chapters),
                                               VerdictParagraph(verdict' = "true")),
                    !.added = Append(@, VerdictParagraph(verdict' = "true").text)]

\* logTaskStatus(taskStatus), to its end
LogTaskStatus ==
    /\ modal.pc = "subscribed"
    /\ modal.notifications < MaxNotifications
    /\ \E taskStatus \in TaskStatuses :
          IF taskStatus # "completed"
          THEN /\ modal' = [modal EXCEPT !.notifications = @ + 1]
               /\ UNCHANGED <<lines, parsed, verdict>>
          ELSE IF FindDocument(modal.documents) = 0 THEN Rejects(modal.documentId)
          ELSE IF Len(modal.documents[FindDocument(modal.documents)].chapters) = 0
               THEN Rejects(FindDocument(modal.documents))
          ELSE Verdicts(FindDocument(modal.documents),
                        TryBlock(modal.documents[FindDocument(modal.documents)].chapters[
                                     Len(modal.documents[FindDocument(modal.documents)].chapters)].paragraphs))
    /\ UNCHANGED <<config, pc, program, stack, proofs, solutions, returned, gen, session,
                   suspended, task>>

NextModal == LogTaskStatus

SpecModal == InitModal /\ [][NextModal]_vars

----------------------------------------------------------------------------
(* ensureValidJson of runTask (src/tasks/SolveReasoningProblem.js).        *)
(* JSON.parse is a table: the JSON documents the texts of the model can    *)
(* turn into, each with its value; a text parses when, white space outside *)
(* its string literals removed, it is one of them.  A value is             *)
(*   [biases: [type, length, items: <<[bias_type, explanation]>>]]         *)
(* with type "undefined" for a missing key and explanation "undefined"     *)
(* for a missing field.                                                    *)

\* largest maxIterations a caller passes to ensureValidJson
MaxRepairIterations == 3

\* the character U+0060 (grave accent), which a TLA+ string cannot hold
Backtick == "backtick"

JsonFence == <<Backtick, Backtick, Backtick, "j", "s", "o", "n">>
FenceEnd == <<Backtick, Backtick, Backtick>>

\* white space JSON.parse allows between tokens
IsJsonSpace(ch) == ch \in {" ", "\n", "\t"}

\* white space String.prototype.trim removes: those of JSON and more (form feed)
IsTrimSpace(ch) == ch \in {" ", "\n", "\t", "\f"}

\* whether position i of s lies outside the string literals of s: an even number
\* of quotation marks comes before it
OutsideLiteral(s, i) == Cardinality({j \in 1..(i - 1) : s[j] = "\""}) % 2 = 0

\* the characters of s, each with whether it lies outside the string literals
Marked(s) == [i \in DOMAIN s |-> [ch |-> s[i], outside |-> OutsideLiteral(s, i)]]

Unmarked(marked) == [k \in DOMAIN marked |-> marked[k].ch]

\* s without the white space outside its string literals
Compact(s) == Unmarked(SelectSeq(Marked(s), LAMBDA m : ~(m.outside /\ IsJsonSpace(m.ch))))

Bias(explanation) == [bias_type |-> "a", explanation |-> explanation]

\* {"biases":[]}
JsonNoItems ==
    <<"{", "\"", "b", "i", "a", "s", "e", "s", "\"", ":", "[", "]", "}">>

\* {"biases":[{"bias_type":"a","explanation":"b"}]}
JsonOneBias ==
    <<"{", "\"", "b", "i", "a", "s", "e", "s", "\"", ":", "[", "{", "\"", "b", "i",
      "a", "s", "_", "t", "y", "p", "e", "\"", ":", "\"", "a", "\"", ",", "\"", "e",
      "x", "p", "l", "a", "n", "a", "t", "i", "o", "n", "\"", ":", "\"", "b", "\"",
      "}", "]", "}">>

\* two such items
JsonTwoBiases ==
    <<"{", "\"", "b", "i", "a", "s", "e", "s", "\"", ":", "[", "{", "\"", "b", "i",
      "a", "s", "_", "t", "y", "p", "e", "\"", ":", "\"", "a", "\"", ",", "\"", "e",
      "x", "p", "l", "a", "n", "a", "t", "i", "o", "n", "\"", ":", "\"", "b", "\"",
      "}", ",", "{", "\"", "b", "i", "a", "s", "_", "t", "y", "p", "e", "\"", ":",
      "\"", "a", "\"", ",", "\"", "e", "x", "p", "l", "a", "n", "a", "t", "i", "o",
      "n", "\"", ":", "\"", "b", "\"", "}", "]", "}">>

\* {"biases":[{"bias_type":"a"}]}
JsonNoExplanation ==
    <<"{", "\"", "b", "i", "a", "s", "e", "s", "\"", ":", "[", "{", "\"", "b", "i",
      "a", "s", "_", "t", "y", "p", "e", "\"", ":", "\"", "a", "\"", "}", "]", "}">>

\* {"biases":"ab"}
JsonBiasesText ==
    <<"{", "\"", "b", "i", "a", "s", "e", "s", "\"", ":", "\"", "a", "b", "\"", "}">>

\* {}
JsonNoBiases == <<"{", "}">>

JsonDocuments ==
    {[text |-> JsonNoItems, value |-> [biases |-> [type |-> "array", length |-> 0, items |-> <<>>]]],
     [text |-> JsonOneBias,
      value |-> [biases |-> [type |-> "array", length |-> 1, items |-> <<Bias("b")>>]]],
     [text |-> JsonTwoBiases,
      value |-> [biases |-> [type |-> "array", length |-> 2, items |-> <<Bias("b"), Bias("b")>>]]],
     [text |-> JsonNoExplanation,
      value |-> [biases |-> [type |-> "array", length |-> 1, items |-> <<Bias("undefined")>>]]],
     [text |-> JsonBiasesText, value |-> [biases |-> [type |-> "string", length |-> 2, items |-> <<>>]]],
     [text |-> JsonNoBiases, value |-> [biases |-> [type |-> "undefined", length |-> 0, items |-> <<>>]]]}

\* whether JSON.parse(jsonString) returns (it throws a SyntaxError otherwise)
Parses(jsonString) == \E d \in JsonDocuments : d.text = Compact(jsonString)

\* what JSON.parse(jsonString) returns when it does
JsonValue(jsonString) == (CHOOSE d \in JsonDocuments : d.text = Compact(jsonString)).value

StartsWithText(s, p) == Len(s) >= Len(p) /\ SubSeq(s, 1, Len(p)) = p

EndsWithText(s, p) == Len(s) >= Len(p) /\ SubSeq(s, Len(s) - Len(p) + 1, Len(s)) = p

\* jsonString.slice(0, -3) when the rest ends with ```
WithoutFenceEnd(rest) ==
    IF EndsWithText(rest, FenceEnd) THEN SubSeq(rest, 1, Len(rest) - Len(FenceEnd)) ELSE rest

\* phase "RemoveJsonMark"
RemoveJsonMark(jsonString) ==
    IF StartsWithText(jsonString, JsonFence)
    THEN WithoutFenceEnd(SubSeq(jsonString, Len(JsonFence) + 1, Len(jsonString)))
    ELSE jsonString

\* phase "RemoveOutsideJson": parts[1] of the split at ```json, up to the next ```
RemoveOutsideJson(jsonString) ==
    IF Len(Split(jsonString, JsonFence)) > 1
    THEN Split(Split(jsonString, JsonFence)[2], FenceEnd)[1]
    ELSE jsonString

\* phase "RemoveNewLine": jsonString.replace(/\n/g, "")
RemoveNewLine(jsonString) == SelectSeq(jsonString, LAMBDA ch : ch # "\n")

RECURSIVE TrimStart(_)
TrimStart(s) == IF Len(s) > 0 /\ IsTrimSpace(s[1]) THEN TrimStart(Tail(s)) ELSE s

RECURSIVE TrimEnd(_)
TrimEnd(s) == IF Len(s) > 0 /\ IsTrimSpace(s[Len(s)]) THEN TrimEnd(SubSeq(s, 1, Len(s) - 1)) ELSE s

\* phase "TrimSpaces": jsonString.trim()
TrimSpaces(jsonString) == TrimEnd(TrimStart(jsonString))

\* Object.values(phases).length
PhaseCount == 5

\* the messages the language model may answer the prompt of phase "LlmHelper" with
LlmRepairs ==
    {JsonOneBias,
     <<"o", "o", "p", "s">>,
     JsonFence \o <<"\n">> \o JsonOneBias \o <<"\n">> \o FenceEnd}

\* what the phase at position `phase` of phaseFunctions can turn jsonString into
PhaseResults(phase, jsonString) ==
    IF phase = 1 THEN {RemoveJsonMark(jsonString)}
    ELSE IF phase = 2 THEN {RemoveOutsideJson(jsonString)}
    ELSE IF phase = 3 THEN {RemoveNewLine(jsonString)}
    ELSE IF phase = 4 THEN {TrimSpaces(jsonString)}
    ELSE LlmRepairs

\* the strings handed to ensureValidJson
RepairInputs ==
    {JsonOneBias,
     JsonFence \o JsonNoItems \o FenceEnd,
     <<"H", "i", ":", " ">> \o JsonFence \o <<"\n">> \o JsonNoItems \o FenceEnd \o <<" ", "b", "y", "e">>,
     <<"{", "\"", "b", "i", "a", "s", "e", "s", "\"", ":", "\"", "a", "\n", "b", "\"", "}">>,
     <<"\f">> \o JsonNoBiases,
     <<"\f">> \o JsonFence \o JsonNoBiases \o FenceEnd \o <<"\n">>,
     <<"o", "o", "p", "s">>}

\* the call ensureValidJson(jsonString, maxIterations, ...) at its while test
EnsureCall(jsonString, maxIterations) ==
    [pc |-> "repairing", jsonString |-> jsonString, maxIterations |-> maxIterations,
     given |-> maxIterations, phase |-> 1, phasesRun |-> 0]

InitEnsure ==
    /\ config = <<>>
    /\ pc = "ready"
    /\ program = <<>>
    /\ stack = <<>>
    /\ proofs = <<>>
    /\ solutions = <<>>
    /\ returned = <<>>
    /\ lines = <<>>
    /\ parsed = [threw |-> FALSE, steps |-> <<>>]
    /\ verdict = "none"
    /\ gen = NotGenerating
    /\ session = NewSession
    /\ suspended = NoOtherCall
    /\ modal = NoModal
    /\ \E jsonString \in RepairInputs, maxIterations \in 0..MaxRepairIterations :
          task = EnsureCall(jsonString, maxIterations)

\* the loop position after the phase at `phase` has run: the for loop goes on, or
\* it ends, maxIterations-- and the while test comes next
AfterPhase(call, jsonString) ==
    [call EXCEPT !.jsonString = jsonString,
                 !.phasesRun = @ + 1,
                 !.phase = IF call.phase = PhaseCount THEN 1 ELSE call.phase + 1,
                 !.maxIterations = IF call.phase = PhaseCount THEN @ - 1 ELSE @]

\* try { JSON.parse(jsonString); return jsonString; }
ParseSucceeds ==
    /\ task.pc = "repairing"
    /\ task.maxIterations > 0
    /\ Parses(task.jsonString)
    /\ task' = [task EXCEPT !.pc = "valid"]
    /\ UNCHANGED <<config, pc, program, stack, proofs, solutions, returned, lines, parsed, verdict,
                   gen, session, suspended, modal>>

\* catch (error) { jsonString = await phase(jsonString, error.message); }
RunPhase ==
    /\ task.pc = "repairing"
    /\ task.maxIterations > 0
    /\ ~Parses(task.jsonString)
    /\ \E jsonString \in PhaseResults(task.phase, task.jsonString) :
          task' = AfterPhase(task, jsonString)
    /\ UNCHANGED <<config, pc, program, stack, proofs, solutions, returned, lines, parsed, verdict,
                   gen, session, suspended, modal>>

\* llmModule.generateText rejects inside phase "LlmHelper": the error leaves ensureValidJson
LlmHelperFails ==
    /\ task.pc = "repairing"
    /\ task.maxIterations > 0
    /\ ~Parses(task.jsonString)
    /\ task.phase = PhaseCount
    /\ task' = [task EXCEPT !.pc = "llmFailed"]
    /\ UNCHANGED <<config, pc, program, stack, proofs, solutions, returned, lines, parsed, verdict,
                   gen, session, suspended, modal>>

\* the while test fails: throw new Error("Unable to ensure valid JSON after all phases.")
GiveUp ==
    /\ task.pc = "repairing"
    /\ task.maxIterations <= 0
    /\ task' = [task EXCEPT !.pc = "unable"]
    /\ UNCHANGED <<config, pc, program, stack, proofs, solutions, returned, lines, parsed, verdict,
                   gen, session, suspended, modal>>

NextEnsure ==
    \/ ParseSucceeds
    \/ RunPhase
    \/ LlmHelperFails
    \/ GiveUp

SpecEnsure == InitEnsure /\ [][NextEnsure]_vars

----------------------------------------------------------------------------
(* The analysis retry loop of runTask and the saving of its result         *)
(* (src/tasks/SolveReasoningProblem.js:144-313).  task holds the locals    *)
(* retries and result, the error the last catch block caught, what runTask *)
(* threw, and the calls made to documentModule; while ensureValidJson runs *)
(* it also holds that call's locals.                                       *)

\* let retries = 3
Retries == 3

\* the maxIterations runTask passes to ensureValidJson
RepairIterations == 3

\* this.parameters.topBiases as the form sends it
TopBiasesTexts == {<<"1">>, <<"2">>}

\* response.message of the analysis request
AnalysisMessages ==
    {JsonOneBias, JsonTwoBiases, JsonNoItems, JsonNoBiases, JsonNoExplanation, JsonBiasesText,
     JsonFence \o <<"\n">> \o JsonOneBias \o <<"\n">> \o FenceEnd,
     <<"o", "o", "p", "s">>}

NothingSaved == [documents |-> 0, chapters |-> 0, paragraphs |-> 0]

\* `let result;` before any JSON.parse has assigned it
Unassigned == [biases |-> [type |-> "unassigned", length |-> 0, items |-> <<>>]]

InitTask ==
    /\ config = <<>>
    /\ pc = "ready"
    /\ program = <<>>
    /\ stack = <<>>
    /\ proofs = <<>>
    /\ solutions = <<>>
    /\ returned = <<>>
    /\ lines = <<>>
    /\ parsed = [threw |-> FALSE, steps |-> <<>>]
    /\ verdict = "none"
    /\ gen = NotGenerating
    /\ session = NewSession
    /\ suspended = NoOtherCall
    /\ modal = NoModal
    /\ \E topBiases \in TopBiasesTexts :
          task = [pc |-> "loop", topBiases |-> topBiases, retries |-> Retries, requests |-> 0,
                  notes |-> 0, result |-> Unassigned, error |-> "none", thrown |-> "none",
                  saved |-> NothingSaved,
                  jsonString |-> <<>>, maxIterations |-> 0, given |-> 0, phase |-> 1,
                  phasesRun |-> 0]

\* the catch block of the loop: retries--, then rethrow when none is left, else
\* append the error to analysisPrompt and go round again
Caught(call, error) ==
    IF call.retries - 1 = 0
    THEN [call EXCEPT !.retries = 0, !.error = error, !.thrown = error, !.pc = "failed"]
    ELSE [call EXCEPT !.retries = @ - 1, !.error = error, !.notes = @ + 1, !.pc = "loop"]

\* getLLMResponseWithTimeout answers; ensureValidJson(response.message, 3, ...) starts
RequestAnalysis ==
    /\ task.pc = "loop"
    /\ task.retries > 0
    /\ \E message \in AnalysisMessages :
          task' = [task EXCEPT !.pc = "repairing", !.requests = @ + 1, !.jsonString = message,
                               !.maxIterations = RepairIterations, !.given = RepairIterations,
                               !.phase = 1, !.phasesRun = 0]
    /\ UNCHANGED <<config, pc, program, stack, proofs, solutions, returned, lines, parsed, verdict,
                   gen, session, suspended, modal>>

\* the request rejects or the 20 s timer wins the race
RequestFails ==
    /\ task.pc = "loop"
    /\ task.retries > 0
    /\ task' = Caught([task EXCEPT !.requests = @ + 1], "LLM request timed out")
    /\ UNCHANGED <<config, pc, program, stack, proofs, solutions, returned, lines, parsed, verdict,
                   gen, session, suspended, modal>>

\* ensureValidJson threw: the catch block of the loop
RepairThrows ==
    /\ task.pc \in {"unable", "llmFailed"}
    /\ task' = Caught(task, IF task.pc = "unable" THEN "Unable to ensure valid JSON" ELSE "LLM error")
    /\ UNCHANGED <<config, pc, program, stack, proofs, solutions, returned, lines, parsed, verdict,
                   gen, session, suspended, modal>>

\* the checks of lines 206-222 on the parsed result: the error they throw, "none" when
\* the loop breaks.  forEach is no function of a string, and .length of a missing
\* explanation is a TypeError
ValidationError(result, expectedBiases) ==
    IF result.biases.type = "undefined" \/ result.biases.length = 0
    THEN "Invalid response format: biases array is empty or missing"
    ELSE IF result.biases.length > expectedBiases
    THEN "Invalid response format: too many biases"
    ELSE IF result.biases.type # "array" THEN "TypeError"
    ELSE IF \E i \in 1..Len(result.biases.items) : result.biases.items[i].explanation = "undefined"
    THEN "TypeError"
    ELSE "none"

\* addDocument, then addChapter and addParagraph per bias
Saved(result) ==
    [documents |-> 1, chapters |-> Len(result.biases.items), paragraphs |-> Len(result.biases.items)]

\* ensureValidJson returned: result = JSON.parse(validJsonString), the checks, then
\* break and the saving of the document, or the catch block
UseAnswer ==
    /\ task.pc = "valid"
    /\ IF ValidationError(JsonValue(task.jsonString), ParseInt(task.topBiases)) = "none"
       THEN task' = [task EXCEPT !.pc = "completed", !.result = JsonValue(task.jsonString),
                                 !.saved = Saved(JsonValue(task.jsonString))]
       ELSE task' = Caught([task EXCEPT !.result = JsonValue(task.jsonString)],
                           ValidationError(JsonValue(task.jsonString), ParseInt(task.topBiases)))
    /\ UNCHANGED <<config, pc, program, stack, proofs, solutions, returned, lines, parsed, verdict,
                   gen, session, suspended, modal>>

NextTask ==
    \/ RequestAnalysis
    \/ RequestFails
    \/ ParseSucceeds
    \/ RunPhase
    \/ LlmHelperFails
    \/ GiveUp
    \/ RepairThrows
    \/ UseAnswer

SpecTask == InitTask /\ [][NextTask]_vars

----------------------------------------------------------------------------
(* generateProblemDescription (src/README.md:457-483), and the modal's     *)
(* handleAnalysis compiling and describing one configuration               *)
(* (llm-reasoning-benchmark-modal.js:303-304).                             *)

PuzzleHeading ==
    <<"S", "o", "l", "v", "e", " ", "t", "h", "e", " ", "f", "o", "l", "l", "o", "w",
      "i", "n", "g", " ", "t", "r", "a", "n", "s", "p", "o", "r", "t", " ", "p", "u",
      "z", "z", "l", "e", ":", "\n", "\n">>

ShuttleWithCapacity ==
    <<"A", " ", "s", "h", "u", "t", "t", "l", "e", " ", "w", "i", "t", "h", " ", "c",
      "a", "p", "a", "c", "i", "t", "y", " ">>

MustTransport ==
    <<" ", "m", "u", "s", "t", " ", "t", "r", "a", "n", "s", "p", "o", "r", "t", " ",
      "a", " ", "g", "r", "o", "u", "p", " ", "o", "f", " ", "s", "p", "e", "c", "i",
      "e", "s", " ", "f", "r", "o", "m", " ", "t", "h", "e", " ", "s", "t", "a", "r",
      "t", " ", "t", "o", " ", "t", "h", "e", " ", "t", "a", "r", "g", "e", "t", " ",
      "b", "a", "n", "k", ".", "\n">>

SpeciesBullet == <<" ", " ", "-", " ">>

Individuals ==
    <<" ", "i", "n", "d", "i", "v", "i", "d", "u", "a", "l", "(", "s", ")", "\n">>

IfPrey ==
    <<" ", " ", "*", " ", "O", "n", " ", "e", "i", "t", "h", "e", "r", " ", "b", "a",
      "n", "k", ",", " ", "i", "f", " ">>

NotOutnumberedBy ==
    <<" ", "a", "r", "e", " ", "p", "r", "e", "s", "e", "n", "t", ",", " ", "t", "h",
      "e", "y", " ", "m", "u", "s", "t", " ", "n", "o", "t", " ", "b", "e", " ", "o",
      "u", "t", "n", "u", "m", "b", "e", "r", "e", "d", " ", "b", "y", " ">>

NoConstraints ==
    <<"T", "h", "e", "r", "e", " ", "a", "r", "e", " ", "n", "o", " ", "s", "a", "f",
      "e", "t", "y", " ", "c", "o", "n", "s", "t", "r", "a", "i", "n", "t", "s", " ",
      "a", "m", "o", "n", "g", " ", "s", "p", "e", "c", "i", "e", "s", ".", "\n">>

FormattingRequirements ==
    <<"C", "R", "I", "T", "I", "C", "A", "L", " ", "R", "E", "S", "P", "O", "N", "S",
      "E", " ", "F", "O", "R", "M", "A", "T", "T", "I", "N", "G", " ", "R", "E", "Q",
      "U", "I", "R", "E", "M", "E", "N", "T", "S", ":", "\n", " ", " ", " ", " ", " ",
      " ", " ", " ", "1", ".", " ", "Y", "o", "u", "r", " ", "r", "e", "s", "p", "o",
      "n", "s", "e", " ", "M", "U", "S", "T", " ", "s", "t", "a", "r", "t", " ", "w",
      "i", "t", "h", " ", "a", "n", " ", "o", "p", "e", "n", "i", "n", "g", " ", "s",
      "q", "u", "a", "r", "e", " ", "b", "r", "a", "c", "k", "e", "t", " ", "[", "\n",
      " ", " ", " ", " ", " ", " ", " ", " ", "2", ".", " ", "Y", "o", "u", "r", " ",
      "r", "e", "s", "p", "o", "n", "s", "e", " ", "M", "U", "S", "T", " ", "e", "n",
      "d", " ", "w", "i", "t", "h", " ", "a", " ", "c", "l", "o", "s", "i", "n", "g",
      " ", "s", "q", "u", "a", "r", "e", " ", "b", "r", "a", "c", "k", "e", "t", " ",
      "]", "\n", " ", " ", " ", " ", " ", " ", " ", " ", "3", ".", " ", "U", "s", "e",
      " ", "d", "o", "u", "b", "l", "e", " ", "q", "u", "o", "t", "e", "s", " ", "f",
      "o", "r", " ", "a", "l", "l", " ", "s", "t", "r", "i", "n", "g", "s", "\n", " ",
      " ", " ", " ", " ", " ", " ", " ", "4", ".", " ", "D", "o", " ", "n", "o", "t",
      " ", "i", "n", "c", "l", "u", "d", "e", " ", "a", "n", "y", " ", "t", "e", "x",
      "t", ",", " ", "c", "o", "m", "m", "e", "n", "t", "s", ",", " ", "o", "r", " ",
      "e", "x", "p", "l", "a", "n", "a", "t", "i", "o", "n", "s", " ", "o", "u", "t",
      "s", "i", "d", "e", " ", "t", "h", "e", " ", "a", "r", "r", "a", "y", " ", "s",
      "t", "r", "u", "c", "t", "u", "r", "e", "\n", " ", " ", " ", " ", " ", " ", " ",
      " ", "5", ".", " ", "F", "o", "l", "l", "o", "w", " ", "t", "h", "i", "s", " ",
      "e", "x", "a", "c", "t", " ", "s", "t", "r", "u", "c", "t", "u", "r", "e", ":",
      "\n", " ", " ", " ", " ", " ", " ", " ", " ", "[", "\"", "n", "1", " ", "s", "p",
      "e", "c", "i", "e", "s", "N", "a", "m", "e", "1", ",", " ", "n", "2", " ", "s",
      "p", "e", "c", "i", "e", "s", "N", "a", "m", "e", "2", " ", "c", "r", "o", "s",
      "s", " ", "l", "e", "f", "t", " ", "-", ">", " ", "r", "i", "g", "h", "t", "\"",
      ",", " ", ".", ".", ".", "]">>

UndefinedText == <<"u", "n", "d", "e", "f", "i", "n", "e", "d">>

\* whether the configuration has a starshipCapacity property
HasCapacity(cfg) == "starshipCapacity" \in DOMAIN cfg

\* `${starshipCapacity}` after `config.starshipCapacity || 2`
CapacityText(cfg) == NumberToString(EffectiveCapacity(cfg))

\* `${config.starshipCapacity}`, without the default
CapacityTextAsGiven(cfg) ==
    IF HasCapacity(cfg) THEN NumberToString(cfg.starshipCapacity) ELSE UndefinedText

\* the lines config.species.forEach appends, from position i on
RECURSIVE SpeciesLines(_, _)
SpeciesLines(species, i) ==
    IF i > Len(species) THEN <<>>
    ELSE SpeciesBullet \o species[i].name \o <<":", " ">> \o NumberToString(species[i].count)
            \o Individuals \o SpeciesLines(species, i + 1)

\* the lines config.relationships.forEach appends, from position k on
RECURSIVE RelationshipLines(_, _)
RelationshipLines(relationships, k) ==
    IF k > Len(relationships) THEN <<>>
    ELSE IfPrey \o relationships[k].prey \o NotOutnumberedBy \o relationships[k].predator
            \o <<".", "\n">> \o RelationshipLines(relationships, k + 1)

DescriptionWith(cfg, capacityText) ==
    PuzzleHeading \o ShuttleWithCapacity \o capacityText \o MustTransport
        \o SpeciesLines(cfg.species, 1)
        \o (IF Len(cfg.relationships) > 0 THEN RelationshipLines(cfg.relationships, 1)
            ELSE NoConstraints)
        \o FormattingRequirements

generateProblemDescriptionAsGiven(cfg) == DescriptionWith(cfg, CapacityTextAsGiven(cfg))

generateProblemDescription(cfg) == DescriptionWith(cfg, CapacityText(cfg))

\* a configuration without the starshipCapacity property
WithoutCapacity(cfg) == [species |-> cfg.species, relationships |-> cfg.relationships]

WithCapacity(cfg, capacity) ==
    [species |-> cfg.species, relationships |-> cfg.relationships, starshipCapacity |-> capacity]

DescribeNames == {<<NameA>>, <<NameA, NameB>>}

\* configurations whose capacity is absent, 0, or a positive number
DescribeConfigs ==
    UNION {{MakeConfig(names, counts, pairs, capacity) :
                counts \in CountVectors(Len(names)), pairs \in PairLists(Len(names)),
                capacity \in 0..(MaxCapacity + 1)} :
           names \in DescribeNames}
    \cup
    UNION {{WithoutCapacity(MakeConfig(names, counts, pairs, 0)) :
                counts \in CountVectors(Len(names)), pairs \in PairLists(Len(names))} :
           names \in DescribeNames}

InitDescribe ==
    /\ config \in DescribeConfigs
    /\ pc = "ready"
    /\ program = <<>>
    /\ stack = <<>>
    /\ proofs = <<>>
    /\ solutions = <<>>
    /\ returned = <<>>
    /\ lines = <<>>
    /\ parsed = [threw |-> FALSE, steps |-> <<>>]
    /\ verdict = "none"
    /\ gen = NotGenerating
    /\ session = NewSession
    /\ suspended = NoOtherCall
    /\ modal = NoModal
    /\ task = NoTask

\* const prompt = generateProblemDescription(this.config)
Describe ==
    /\ modal = NoModal
    /\ modal' = [pc |-> "described", prompt |-> generateProblemDescription(config)]
    /\ UNCHANGED <<config, pc, program, stack, proofs, solutions, returned, lines, parsed, verdict,
                   gen, session, suspended, task>>

NextDescribe ==
    \/ Compile
    \/ Describe

SpecDescribe == InitDescribe /\ [][NextDescribe]_vars

----------------------------------------------------------------------------
(* Properties.                                                             *)

\* C1 (as stated): every solution solveProblem returns, handed to
\* checkUserSolution under the same configuration, is accepted (returns true).
C1_RoundTripAccepted == pc = "checked" => verdict = "true"

\* C2: every solution found is a connected chain of move(Move, Before, After)
\* steps: the first Before is the initial state, each After is the next step's
\* Before, and the last After is the final state.
C2_SolutionIsChain ==
    \A i \in DOMAIN proofs :
        /\ Len(proofs[i]) > 0
        /\ proofs[i][1].before = InitialState(config)
        /\ \A k \in 1..(Len(proofs[i]) - 1) : proofs[i][k].after = proofs[i][k + 1].before
        /\ proofs[i][Len(proofs[i])].after = FinalState(config)

C2_Witness == pc = "returned" /\ \E i \in DOMAIN proofs : Len(proofs[i]) >= 3

\* C3: every state a solution enters after a step is safe on both banks: for
\* every (predator, prey) pair, on each bank the prey is absent or at least as
\* numerous as the predator.
C3_SolutionStatesSafe ==
    \A i \in DOMAIN proofs :
        \A k \in DOMAIN proofs[i] : StateSafe(config, proofs[i][k].after)

C3_Witness ==
    /\ Len(config.relationships) > 0
    /\ \E i \in DOMAIN proofs : Len(proofs[i]) >= 5

\* C4: no state (counts on the start bank together with the shuttle side)
\* occurs twice in a solution, the initial state included.
C4_NoStateRepeats ==
    \A i \in DOMAIN proofs :
        \A j, k \in DOMAIN StatesOf(proofs[i]) :
            j < k => StatesOf(proofs[i])[j] # StatesOf(proofs[i])[k]

C4_Witness ==
    /\ pc = "returned"
    /\ Len(proofs) >= 2
    /\ \E i \in DOMAIN proofs : Len(proofs[i]) >= 3 /\ Len(config.relationships) = 0

\* C5: the list is handed back only when the enumeration is exhausted, and it
\* then holds every cycle-free legal sequence of moves from the initial to the
\* final state.
C5_EveryCycleFreeSolutionReturned ==
    /\ pc \in {"ready", "answering"} => returned = <<>>
    /\ pc = "returned" =>
          /\ Len(stack) = 0
          /\ \A p \in CycleFreeSolutions(config) :
                \E i \in DOMAIN returned :
                    returned[i] = solutionToHumanReadableList(p, config.species)

C5_Witness == pc = "returned" /\ Len(stack) = 0 /\ Len(returned) >= 4

\* C6 (as stated): each cycle-free solution is returned exactly once, so no two
\* entries of the returned list are the same solution.
C6_EachSolutionOnce ==
    \A i, j \in DOMAIN returned : i # j => returned[i] # returned[j]

\* C7: solveProblem terminates, and the explored path never holds more than
\* (product of (count_i + 1)) * 2 states.
C7_TerminatesWithinStateSpace ==
    /\ [][Len(stack') <= StateSpaceSize(config, 1)]_vars
    /\ <>(pc = "returned")

C7_Witness == pc = "returned" /\ Len(config.species) = 2 /\ Len(proofs) = 0

\* C8: checkUserSolution returns true exactly when replaying the supplied steps
\* from the initial state is legal at every step, each declared direction
\* matches the shuttle's side, and the replay ends exactly in the final state.
C8_TrueIffLegalReplay ==
    pc = "checked" =>
        verdict = (IF ReachesFinal(config, parsed.steps) THEN "true" ELSE "false")

C8_Witness == pc = "checked" /\ verdict = "true" /\ Len(lines) = 3 /\ config = Scenario1Wide

\* C9 (as stated): checkUserSolution returns false for every step sequence with
\* a proper prefix that already reaches the final state, followed by further steps.
C9_TrailingStepsRejected ==
    pc = "checked" /\ FinalPrefixes(config, parsed.steps) # {} => verdict = "false"

\* C9 (amended): for a step sequence with a proper prefix that already reaches
\* the final state, checkUserSolution returns false unless the further steps are
\* themselves a legal replay from the final state back to the final state, and
\* then it returns true.
C9_TrailingStepsRejectedUnlessReturn ==
    pc = "checked" =>
        \A k \in FinalPrefixes(config, parsed.steps) :
            verdict = (IF Replay(config, parsed.steps, k + 1, FinalState(config))
                       THEN "true" ELSE "false")

C9_Witness ==
    /\ pc = "checked"
    /\ FinalPrefixes(config, parsed.steps) # {}
    /\ verdict = "false"

\* C10: checkUserSolution returns false for any step sequence with a step whose
\* amounts sum to more than the shuttle capacity.
C10_OverCapacityRejected ==
    pc = "checked" /\ (\E k \in DOMAIN parsed.steps :
                          SumSeq(parsed.steps[k].amounts) > config.starshipCapacity)
        => verdict = "false"

\* the whole population in one crossing, which only the capacity forbids
C10_Witness ==
    /\ pc = "checked"
    /\ Len(parsed.steps) = 1
    /\ parsed.steps[1].direction = "leftToRight"
    /\ parsed.steps[1].amounts = InitCounts(config)
    /\ SumSeq(InitCounts(config)) > config.starshipCapacity
    /\ verdict = "false"

\* C11 (as stated): when any candidate line fails to decode (no " cross ", a
\* direction other than the two literals, a malformed segment, an unknown
\* species), checkUserSolution returns false; it does not throw or reject.
C11_DecodeFailureReturnsFalse ==
    pc = "checked" /\ (\E i \in DOMAIN lines : lines[i] \in MalformedLines)
        => verdict = "false"

\* the side the shuttle is on before step k of a replay: every step flips it
SideBeforeStep(k) == IF k % 2 = 1 THEN "start" ELSE "target"

DeclaredFrom(step) == IF step.direction = "leftToRight" THEN "start" ELSE "target"

\* C12: the direction of a candidate step is never inferred: checkUserSolution
\* returns false whenever some step declares 'left -> right' on the target side
\* or 'right -> left' on the start side, so every accepted sequence starts with
\* 'left -> right' and strictly alternates directions.
C12_DirectionNeverInferred ==
    pc = "checked" =>
        /\ (\E k \in DOMAIN parsed.steps : DeclaredFrom(parsed.steps[k]) # SideBeforeStep(k))
              => verdict = "false"
        /\ verdict = "true" =>
              /\ parsed.steps[1].direction = "leftToRight"
              /\ \A k \in 1..(Len(parsed.steps) - 1) :
                    parsed.steps[k].direction # parsed.steps[k + 1].direction

\* everyone crosses at once within the capacity, but declared 'right -> left'
C12_Witness ==
    /\ pc = "checked"
    /\ Len(parsed.steps) = 1
    /\ parsed.steps[1].direction = "rightToLeft"
    /\ parsed.steps[1].amounts = InitCounts(config)
    /\ SumSeq(InitCounts(config)) <= config.starshipCapacity
    /\ verdict = "false"

\* the transitions the puzzle allows out of S: [move, next]
LegalTransitions(cfg, S) ==
    {[move |-> m, next |-> StepResult(S, m)] :
        m \in {v \in MoveVectors(cfg) : LegalStep(cfg, S, v)}}

\* the answers of a goal as a set
AnswerSet(answers) == {answers[r] : r \in DOMAIN answers}

\* the move vectors a caller may bind Move to, emitted as facts or not
BoundMoves(cfg) == [1..Len(cfg.species) -> 0..(cfg.starshipCapacity + 1)]

\* C13: the transition relation used by solve (Move unbound) and by verify (Move
\* bound) relates S to S' via M exactly when M is an emitted move fact, the side
\* flips, the counts are counts - M leaving start and counts + M leaving target,
\* no count is negative or above the initial count, and S' is safe.
C13_TransitionRelation ==
    pc = "answering" /\ Len(stack) > 0 =>
        /\ AnswerSet(transition_with_move(program, Top.state))
              = LegalTransitions(config, Top.state)
        /\ \A m \in BoundMoves(config) :
              AnswerSet(transition_with_bound_move(program, Top.state, m))
                  = {t \in LegalTransitions(config, Top.state) : t.move = m}

\* on the target side, with a move refused only for exceeding an initial count
\* and another move allowed
C13_Witness ==
    /\ pc = "answering"
    /\ Len(stack) > 1
    /\ Top.state.side = "target"
    /\ LegalTransitions(config, Top.state) # {}
    /\ \E m \in MoveVectors(config) : ~WithinPopulation(config, StepResult(Top.state, m))

\* C14: in every state reachable from the initial state by transitions, in solve
\* (the states of the open calls and of the answers) or in verify (any bound move
\* applied to a reachable state), each count lies between 0 and the species'
\* initial count inclusive.
C14_CountsWithinPopulation ==
    /\ \A i \in DOMAIN stack : WithinPopulation(config, stack[i].state)
    /\ \A i \in DOMAIN proofs :
          \A k \in DOMAIN proofs[i] : WithinPopulation(config, proofs[i][k].after)
    /\ pc = "answering" /\ Len(stack) > 0 =>
          \A m \in BoundMoves(config) :
              \A t \in AnswerSet(transition_with_bound_move(program, Top.state, m)) :
                  WithinPopulation(config, t.next)

\* a state with one species all across and another all on the start bank
C14_Witness ==
    /\ Len(stack) >= 3
    /\ \E i, j \in 1..Len(config.species) :
          /\ config.species[i].count > 0
          /\ config.species[j].count > 0
          /\ Top.state.counts[i] = 0
          /\ Top.state.counts[j] = config.species[j].count

\* C15: for every species count n and capacity c, the move facts emitted by
\* generatePrologCode are exactly the vectors v in [0,c]^n with 1 <= sum(v) <= c,
\* and no vector is emitted twice.
C15_MoveFactsExact ==
    pc = "compiled" =>
        /\ AnswerSet(program.move) = MoveVectors(config)
        /\ \A i, j \in DOMAIN program.move : i # j => program.move[i] # program.move[j]

\* three species, capacity 2: three loads of one species twice, three of one
\* individual, three of two different individuals
C15_Witness ==
    /\ pc = "compiled"
    /\ Len(config.species) = 3
    /\ config.starshipCapacity = 2
    /\ Len(program.move) = 9

\* the states within the population of cfg
PopulationStates(cfg) ==
    {[counts |-> c, side |-> d] :
        c \in {v \in [1..Len(cfg.species) -> 0..SumSeq(InitCounts(cfg))] :
                   \A i \in 1..Len(cfg.species) : v[i] <= cfg.species[i].count},
        d \in {"start", "target"}}

\* C16: the compiled safe predicate holds for a state exactly when, for every
\* relationship, (prey = 0 or prey >= predator) on the start bank and on the
\* target bank (initial - counts); with zero relationships it holds for every
\* state, and a bank with zero predators is safe whatever the prey count.
C16_SafePredicate ==
    pc = "compiled" =>
        /\ \A S \in PopulationStates(config) : (safe(program, S) > 0) <=> StateSafe(config, S)
        /\ Len(config.relationships) = 0 =>
              \A S \in PopulationStates(config) : safe(program, S) > 0

\* under a relationship, a state that is safe only because the prey is absent
\* from a bank with predators, and a state that is not safe
C16_Witness ==
    /\ pc = "compiled"
    /\ Len(config.relationships) > 0
    /\ \E S \in PopulationStates(config) : safe(program, S) = 0
    /\ \E S \in PopulationStates(config) :
          /\ safe(program, S) > 0
          /\ \E k \in DOMAIN config.relationships :
                /\ S.counts[speciesIndex(config, config.relationships[k].prey)] = 0
                /\ S.counts[speciesIndex(config, config.relationships[k].predator)] > 0

\* answer i is the single step that carries every individual from start to target
EveryoneAtOnce(i) ==
    /\ Len(proofs[i]) = 1
    /\ proofs[i][1].move = InitCounts(config)
    /\ proofs[i][1].before = InitialState(config)
    /\ proofs[i][1].after = FinalState(config)
    /\ Len(returned[i]) = 1

\* C17 (as stated): for every config with zero relationships whose total
\* population is at most the capacity, the returned list contains a solution of
\* exactly one step whose move vector is the initial counts.
C17_EveryoneCrossesAtOnce ==
    /\ pc = "returned"
    /\ Len(config.relationships) = 0
    /\ SumSeq(InitCounts(config)) <= config.starshipCapacity
    => \E i \in DOMAIN returned : EveryoneAtOnce(i)

\* C17 (amended): for every config with zero relationships whose total
\* population is at least 1 and at most the capacity, the returned list contains
\* a solution of exactly one step whose move vector is the initial counts.
C17_NonEmptyPopulationCrossesAtOnce ==
    /\ pc = "returned"
    /\ Len(config.relationships) = 0
    /\ SumSeq(InitCounts(config)) >= 1
    /\ SumSeq(InitCounts(config)) <= config.starshipCapacity
    => \E i \in DOMAIN returned : EveryoneAtOnce(i)

C17_Witness ==
    /\ pc = "returned"
    /\ Len(config.relationships) = 0
    /\ Len(config.species) = 2
    /\ \A k \in 1..2 : config.species[k].count >= 1
    /\ SumSeq(InitCounts(config)) <= config.starshipCapacity
    /\ \E i \in DOMAIN returned : EveryoneAtOnce(i)

\* C18: for cats(2), dogs(1), capacity 3, no relationships: exactly one returned
\* solution has one step, it is the single line
\* '2 cats, 1 dogs cross left -> right', and checkUserSolution on that one line
\* returns true.
C18_Scenario2OneStep ==
    config = Scenario2 =>
        /\ pc = "returned" =>
              /\ Cardinality({i \in DOMAIN returned : Len(returned[i]) = 1}) = 1
              /\ \A i \in DOMAIN returned : Len(returned[i]) = 1 => returned[i] = <<LineEveryone>>
        /\ pc = "checked" /\ lines = <<LineEveryone>> => verdict = "true"

C18_Witness ==
    /\ config = Scenario2
    /\ pc = "checked"
    /\ lines = <<LineEveryone>>
    /\ verdict = "true"
    /\ Len(returned) > 1

LineTwoB ==
    <<"2", " ", "b", " ", "c", "r", "o", "s", "s", " ", "l", "e", "f", "t">>
    \o <<" ", "-", ">", " ", "r", "i", "g", "h", "t">>

\* answer i starts by carrying 2 of b and 0 of a from left to right
FirstStepTwoB(i) ==
    /\ proofs[i][1].move = <<0, 2>>
    /\ proofs[i][1].before.side = "start"
    /\ returned[i][1] = LineTwoB

\* C19: for a(2), b(2), capacity 2, (predator b, prey a): solve terminates and
\* its result contains a solution whose first step moves exactly 2 of b and 0
\* of a from left to right.
C19_Scenario1FirstStep ==
    config = Scenario1 =>
        <>(pc = "returned" /\ \E i \in DOMAIN returned : FirstStepTwoB(i))

C19_Witness ==
    /\ config = Scenario1
    /\ pc = "returned"
    /\ \E i \in DOMAIN returned : FirstStepTwoB(i) /\ Len(returned[i]) = 5

\* C20: generateRandomConfig terminates without raising for every species count
\* n >= 0 and relationship count r >= 0, and returns a config with at most r
\* relationships: an unfinished call can always take a step that changes its
\* state (it neither raised nor spins in place), and a finished one returned at
\* most r relationships
C20_GeneratorTerminates ==
    /\ gen.pc # "returned" => ENABLED <<NextGen>>_vars
    /\ gen.pc = "returned" => Len(config.relationships) <= gen.numRelationships

\* the data-model invariants of spec.md on a configuration: species names are
\* pairwise distinct, every relationship names two species of the
\* configuration, none has predator name = prey name, and no ordered pair of
\* names occurs twice
NamesDistinct(cfg) ==
    \A i, j \in DOMAIN cfg.species : cfg.species[i].name = cfg.species[j].name => i = j

RelationshipsNamePresentSpecies(cfg) ==
    \A k \in DOMAIN cfg.relationships :
        {cfg.relationships[k].predator, cfg.relationships[k].prey}
            \subseteq {cfg.species[i].name : i \in DOMAIN cfg.species}

NoSelfPair(cfg) ==
    \A k \in DOMAIN cfg.relationships :
        cfg.relationships[k].predator # cfg.relationships[k].prey

NoDuplicatePair(cfg) ==
    \A k, l \in DOMAIN cfg.relationships : cfg.relationships[k] = cfg.relationships[l] => k = l

\* C21: every config returned by generateRandomConfig satisfies the data-model
\* invariants (distinct species names, relationships over present species, no
\* self-pair, no ordered pair of names twice)
C21_ReturnedConfigWellFormed ==
    gen.pc = "returned" =>
        /\ NamesDistinct(config)
        /\ RelationshipsNamePresentSpecies(config)
        /\ NoSelfPair(config)
        /\ NoDuplicatePair(config)

\* C22: a config with a relationship whose predator or prey is not the name of
\* any of its species is rejected before any program is produced:
\* generatePrologCode never returns a program for such a config
C22_UnknownSpeciesRejected ==
    ~RelationshipsNamePresentSpecies(config) => (pc # "compiled" /\ program = <<>>)

\* C23: if program loading, the query or any answer step reports an error,
\* solveProblem rejects with that error and returns no solution list, even when
\* solutions had been gathered; the load and the query are each attempted once,
\* no query is issued after a failed load, and nothing follows the rejection
C23_ErrorRejectsWithoutList ==
    /\ session.error # "none" <=> pc = "rejected"
    /\ pc = "rejected" => (returned = <<>> /\ ~ENABLED <<NextFaulty>>_vars)
    /\ session.consults <= 1
    /\ session.queries <= 1
    /\ session.error = "Consult error" => (session.queries = 0 /\ stack = <<>>)
    /\ session.error = "Query error" => (stack = <<>> /\ solutions = <<>>)

\* an answer step fails after a solution has been pushed
C23_Witness ==
    /\ pc = "rejected"
    /\ session.error = "Answer error"
    /\ Len(solutions) > 0
    /\ returned = <<>>

\* a finished call holds the result the same call gives when it is the only one
ResultAsAlone(call) ==
    /\ call.pc = "returned" => call.returned = solveProblemAlone(call.config)
    /\ call.pc = "checked" => call.verdict = checkUserSolutionAlone(call.config, call.lines)

\* C24: solveProblem and checkUserSolution calls share no mutable state: however
\* the steps of two calls interleave, and whatever call came before, each call
\* returns the result it returns when run alone
C24_CallsIndependent == ResultAsAlone(Running) /\ ResultAsAlone(suspended)

\* one call has returned its solutions while the other, on another config, is
\* in the middle of gathering its own
C24_Witness ==
    /\ pc = "returned"
    /\ Len(returned) > 0
    /\ suspended.pc = "answering"
    /\ Len(suspended.solutions) > 0
    /\ suspended.config # config

StartsWith(t, p) == Len(p) <= Len(t) /\ SubSeq(t, 1, Len(p)) = p

\* text is a list of segments "<positive integer> <species name>" joined by ", ",
\* one segment for each species from index `from` on that has a positive amount,
\* in species order, and no other segment
RECURSIVE IsAmountsList(_, _, _, _)
IsAmountsList(text, species, amounts, from) ==
    \E i \in from..Len(species) :
        /\ amounts[i] > 0
        /\ \A j \in from..(i - 1) : amounts[j] = 0
        /\ LET segment == NumberToString(amounts[i]) \o <<" ">> \o species[i].name
               rest == SubSeq(text, Len(segment) + 1, Len(text))
           IN  /\ StartsWith(text, segment)
               /\ \/ rest = <<>> /\ \A j \in (i + 1)..Len(species) : amounts[j] = 0
                  \/ /\ StartsWith(rest, CommaSpace)
                     /\ IsAmountsList(SubSeq(rest, Len(CommaSpace) + 1, Len(rest)),
                                      species, amounts, i + 1)

\* line is a step line of the grammar for the move `term` of the solution:
\* <amounts-list> cross <direction>, the direction being that of the side left
IsStepLine(line, species, term) ==
    LET tail == CrossSeparator \o (IF term.before.side = "start" THEN LeftToRightText
                                    ELSE RightToLeftText)
    IN  /\ Len(line) > Len(tail)
        /\ SubSeq(line, Len(line) - Len(tail) + 1, Len(line)) = tail
        /\ IsAmountsList(SubSeq(line, 1, Len(line) - Len(tail)), species, term.move, 1)

LexLess(u, v) ==
    \E k \in 1..Len(u) : u[k] < v[k] /\ \A j \in 1..(k - 1) : u[j] = v[j]

\* the first step at which the solutions s and t carry different moves (0 if none)
FirstDifference(s, t) ==
    LET diff == {k \in DOMAIN s \cap DOMAIN t : s[k].move # t[k].move}
    IN  IF diff = {} THEN 0 ELSE CHOOSE k \in diff : \A l \in diff : k <= l

RECURSIVE SummedCount(_, _)
SummedCount(segs, i) ==
    IF Len(segs) = 0 THEN 0
    ELSE (IF segs[1].idx = i THEN segs[1].count ELSE 0) + SummedCount(Tail(segs), i)

\* one segment per species named, in species order, carrying the summed count
RECURSIVE MergedSegments(_, _, _)
MergedSegments(segs, i, n) ==
    IF i > n THEN <<>>
    ELSE (IF SummedCount(segs, i) > 0 THEN <<[idx |-> i, count |-> SummedCount(segs, i)]>> ELSE <<>>)
         \o MergedSegments(segs, i + 1, n)

\* C28: decoding accumulates repeated species additively: a line whose segments
\* name the same species several times decodes to the same amounts vector as
\* the line with one segment per species carrying the summed count, and
\* checkUserSolution returns the same result for both
C28_RepeatedSpeciesAccumulate ==
    pc = "checked" =>
        \A segs \in SegmentLists, directionText \in {LeftToRightText, RightToLeftText} :
            lines = <<segmentsLine(config, segs, directionText)>> =>
                /\ ~parsed.threw
                /\ parsed.steps[1].amounts =
                       [i \in 1..Len(config.species) |-> SummedCount(segs, i)]
                /\ parsed = parseSolutionLines(config,
                       <<segmentsLine(config, MergedSegments(segs, 1, Len(config.species)),
                                      directionText)>>)
                /\ verdict = checkUserSolutionAlone(config,
                       <<segmentsLine(config, MergedSegments(segs, 1, Len(config.species)),
                                      directionText)>>)

\* "1 cats, 1 dogs, 1 cats cross left -> right" is accepted as the crossing of everyone
C28_Witness ==
    /\ pc = "checked"
    /\ lines = <<segmentsLine(config, <<[idx |-> 1, count |-> 1], [idx |-> 2, count |-> 1],
                                        [idx |-> 1, count |-> 1]>>, LeftToRightText)>>
    /\ parsed.steps[1].amounts = <<2, 1>>
    /\ verdict = "true"

\* the transition from `before` by `move` to `after` changes the start-bank
\* counts by exactly the move (down when leaving the start side, up when
\* leaving the target side), flips the side, leaves each species between 0 and
\* its initial count on the start bank (so that start + target = initial with
\* both banks non-negative), and carries between 1 and capacity individuals
FrameEffect(cfg, before, move, after) ==
    /\ DOMAIN after.counts = DOMAIN before.counts
    /\ DOMAIN move = DOMAIN before.counts
    /\ before.side \in {"start", "target"}
    /\ before.side = "start" =>
          /\ after.side = "target"
          /\ \A i \in DOMAIN move : after.counts[i] = before.counts[i] - move[i]
    /\ before.side = "target" =>
          /\ after.side = "start"
          /\ \A i \in DOMAIN move : after.counts[i] = before.counts[i] + move[i]
    /\ \A i \in DOMAIN move :
          /\ move[i] >= 0
          /\ after.counts[i] >= 0
          /\ cfg.species[i].count - after.counts[i] >= 0
    /\ SumSeq(move) >= 1
    /\ SumSeq(move) <= cfg.starshipCapacity

\* C29: each transition changes the start-bank counts by exactly the move vector
\* (decrease on start to target, increase on target to start) and nothing else
\* but the side; per species start + target stays the initial count; each step
\* carries between 1 and capacity individuals.  Checked on every answer of
\* transition_with_move the search holds, on every call of path/3 that is open
\* and on every step of every solution found.
C29_TransitionFrameEffect ==
    /\ \A f \in DOMAIN stack :
          /\ \A j \in DOMAIN stack[f].alts :
                FrameEffect(config, stack[f].state, stack[f].alts[j].move, stack[f].alts[j].next)
          /\ f > 1 => FrameEffect(config, stack[f - 1].state, stack[f].move, stack[f].state)
    /\ \A i \in DOMAIN proofs : \A k \in DOMAIN proofs[i] :
          FrameEffect(config, proofs[i][k].before, proofs[i][k].move, proofs[i][k].after)

\* a solution found that has a step back to the start side carrying one of two
\* species, while the search still holds untried transitions
C29_Witness ==
    /\ \E i \in DOMAIN proofs : \E k \in DOMAIN proofs[i] :
          /\ proofs[i][k].before.side = "target"
          /\ Len(proofs[i][k].move) = 2
          /\ proofs[i][k].after.counts # proofs[i][k].before.counts
    /\ \E f \in DOMAIN stack : Len(stack[f].alts) > 0

\* the steps step(Move, Direction) that a solution term of solve stands for
TermSteps(p) ==
    [k \in 1..Len(p) |->
        [amounts |-> p[k].move,
         direction |-> IF p[k].before.side = "start" THEN "leftToRight" ELSE "rightToLeft"]]

\* the states a replay of the steps passes through, from S on
RECURSIVE StatesAlong(_, _, _)
StatesAlong(S, steps, k) ==
    IF k > Len(steps) THEN <<S>>
    ELSE <<S>> \o StatesAlong(StepResult(S, steps[k].amounts), steps, k + 1)

\* the replay of the steps from the initial state meets no state twice
NoStateTwice(cfg, steps) ==
    \A a, b \in 1..(Len(steps) + 1) :
        StatesAlong(InitialState(cfg), steps, 1)[a] = StatesAlong(InitialState(cfg), steps, 1)[b]
            => a = b

\* C30 (as stated): verify and solve define the same set of solutions: a list of
\* step lines is accepted by checkUserSolution if and only if it is the text of
\* some solution that solveProblem enumerates for the same config
C30_VerifyAcceptsExactlySolveTexts ==
    pc = "checked" => (verdict = "true" <=> \E i \in DOMAIN returned : returned[i] = lines)

\* C30 (amended): the steps of every solution that solveProblem enumerates
\* satisfy check_solution, and a list of step lines that checkUserSolution
\* accepts decodes to the steps of a solution solveProblem enumerates exactly
\* when its replay meets no state twice
C30_VerifyAcceptsSolveAndCycles ==
    /\ pc \in {"returned", "checked"} =>
          \A i \in DOMAIN proofs :
              check_solution(program, TermSteps(proofs[i]), program.initial_state)
    /\ (pc = "checked" /\ verdict = "true") =>
          ((\E i \in DOMAIN proofs : TermSteps(proofs[i]) = parsed.steps)
              <=> NoStateTwice(config, parsed.steps))

\* an accepted list of three lines that returns to the initial state on its way
C30_Witness ==
    /\ pc = "checked"
    /\ verdict = "true"
    /\ Len(lines) = 3
    /\ ~NoStateTwice(config, parsed.steps)
    /\ Len(proofs) > 0

----------------------------------------------------------------------------
\* the direction name parseSolutionLines gives for the sides of a move term
directionName(term) == IF term.before.side = "start" THEN "leftToRight" ELSE "rightToLeft"

\* C31 (as stated): for every configuration whose species names are pairwise
\* distinct identifiers, every legal move m and every direction d, decoding the
\* line that encodes (m, d) gives amounts = m and direction = d.
C31_CodecRoundTrip ==
    pc = "decoded" =>
        /\ ~parsed.threw
        /\ Len(parsed.steps) = 1
        /\ parsed.steps[1].amounts = proofs[1][1].move
        /\ parsed.steps[1].direction = directionName(proofs[1][1])

----------------------------------------------------------------------------
\* text t ends with text p
EndsWith(t, p) == Len(t) >= Len(p) /\ SubSeq(t, Len(t) - Len(p) + 1, Len(t)) = p

\* the direction text a step line at position k of a solution must end with
DirectionTextAt(k) == IF k % 2 = 1 THEN LeftToRightText ELSE RightToLeftText

\* an odd number of move terms, sides alternating from start -> target
TermsAlternate(term) ==
    /\ Len(term) % 2 = 1
    /\ \A k \in 1..Len(term) :
        /\ term[k].before.side = (IF k % 2 = 1 THEN "start" ELSE "target")
        /\ term[k].after.side = (IF k % 2 = 1 THEN "target" ELSE "start")

\* an odd number of step lines, directions alternating from left -> right
LinesAlternate(ls) ==
    /\ Len(ls) % 2 = 1
    /\ \A k \in 1..Len(ls) : EndsWith(ls[k], DirectionTextAt(k))

\* an odd number of decoded steps, directions alternating from leftToRight
StepsAlternate(steps) ==
    /\ Len(steps) % 2 = 1
    /\ \A k \in 1..Len(steps) :
        steps[k].direction = (IF k % 2 = 1 THEN "leftToRight" ELSE "rightToLeft")

\* C32: every solution solve yields, and every step sequence verify accepts,
\* has an odd number of steps whose directions alternate, beginning and ending
\* with a start-to-target ('left -> right') step.
C32_OddAlternatingDirections ==
    /\ \A i \in 1..Len(proofs) : TermsAlternate(proofs[i])
    /\ \A i \in 1..Len(solutions) : LinesAlternate(solutions[i])
    /\ \A i \in 1..Len(returned) : LinesAlternate(returned[i])
    /\ verdict = "true" => StepsAlternate(parsed.steps) /\ LinesAlternate(lines)

\* solve has returned a three-step solution and verify has accepted three lines
C32_Witness ==
    /\ \E i \in 1..Len(returned) : Len(returned[i]) = 3
    /\ verdict = "true"
    /\ Len(lines) = 3

----------------------------------------------------------------------------
\* C33: for every config, including one whose counts are all zero, the initial
\* state is never the final state: solve never yields a zero-step solution,
\* checkUserSolution returns false for an empty list of lines, and a config
\* with total population 0 has no solution at all (solve returns none, verify
\* accepts none).
C33_InitialNeverFinal ==
    /\ generatePrologCode(config).initial_state # generatePrologCode(config).final_state
    /\ \A i \in 1..Len(proofs) : Len(proofs[i]) >= 1
    /\ \A i \in 1..Len(solutions) : Len(solutions[i]) >= 1
    /\ \A i \in 1..Len(returned) : Len(returned[i]) >= 1
    /\ pc = "checked" /\ lines = <<>> => verdict = "false"
    /\ SumSeq(InitCounts(config)) = 0 =>
          /\ proofs = <<>>
          /\ pc \in {"returned", "checked"} => returned = <<>>
          /\ pc = "checked" => verdict = "false"

\* solve has returned for a config with nobody to carry and verify was handed
\* the empty list of lines
C33_Witness ==
    /\ SumSeq(InitCounts(config)) = 0
    /\ pc = "checked"
    /\ returned = <<>>
    /\ lines = <<>>
    /\ verdict = "false"

----------------------------------------------------------------------------
\* the initial state violates the safety predicate: some relationship has
\* 0 < initial prey count < initial predator count
InitialUnsafe(cfg) ==
    \E k \in 1..Len(cfg.relationships) :
        \E i, j \in 1..Len(cfg.species) :
            /\ cfg.species[i].name = cfg.relationships[k].predator
            /\ cfg.species[j].name = cfg.relationships[k].prey
            /\ 0 < cfg.species[j].count
            /\ cfg.species[j].count < cfg.species[i].count

\* the line that carries everyone of a(1), b(2) at once
LineOutnumberedEveryone ==
    <<"1", " ", "a", ",", " ", "2", " ", "b">> \o CrossSeparator \o LeftToRightText

\* C34: although no transition ever checks the initial state, it is safe in
\* every solution: if the initial state violates the safety predicate then
\* solve returns no solution and verify returns false for every step sequence.
C34_UnsafeInitialHasNoSolution ==
    InitialUnsafe(config) =>
        /\ proofs = <<>>
        /\ solutions = <<>>
        /\ returned = <<>>
        /\ pc = "checked" => verdict = "false"

\* the capacity lets everyone cross at once, solve has searched and returned,
\* and verify was handed the one line that carries everyone
C34_Witness ==
    /\ InitialUnsafe(config)
    /\ config.starshipCapacity = 3
    /\ pc = "checked"
    /\ returned = <<>>
    /\ lines = <<LineOutnumberedEveryone>>
    /\ verdict = "false"

----------------------------------------------------------------------------
\* C35 (as stated): for every 'completed' task notification logTaskStatus
\* appends exactly one verdict paragraph and no call of it rejects; the verdict
\* is 'The solution provided is correct.' only if checkUserSolution returned
\* true; notifications with another status append nothing.
C35_OneVerdictPerCompletion ==
    modal.pc = "subscribed" =>
        /\ ~modal.rejected
        /\ Len(modal.added) = modal.completed
        /\ \A k \in 1..Len(modal.added) : modal.added[k] \in {CorrectText, IncorrectText}
        /\ Len(modal.added) >= 1 /\ modal.added[Len(modal.added)] = CorrectText => verdict = "true"

----------------------------------------------------------------------------
\* C36 (as stated): ensureValidJson returns only strings that parse as JSON,
\* runs at most maxIterations * 5 repair phases, and whenever the string is
\* parsable after any repair phase (including the last phase of the last
\* iteration) it returns that string rather than throwing 'Unable to ensure
\* valid JSON after all phases.'.
C36_RepairedStringReturned ==
    /\ task.pc = "valid" => Parses(task.jsonString)
    /\ task.pc \in {"repairing", "valid", "unable", "llmFailed"} =>
          task.phasesRun <= task.given * PhaseCount
    /\ task.pc = "unable" /\ task.phasesRun > 0 => ~Parses(task.jsonString)

----------------------------------------------------------------------------
\* the response validates: a non-empty biases array with at most topBiases entries
Validates(result, topBiases) ==
    /\ result.biases.type = "array"
    /\ result.biases.length >= 1
    /\ result.biases.length <= ParseInt(topBiases)

\* C37 (as stated): the analysis retry loop of runTask requests the analysis at
\* most 3 times, stops at the first attempt whose response validates (non-empty
\* biases array with at most topBiases entries), and after the third failed
\* attempt rethrows that attempt's error without adding any document, chapter
\* or paragraph.
C37_RetryLoop ==
    /\ task.requests <= Retries
    /\ task.pc # "completed" => ~Validates(task.result, task.topBiases)
    /\ task.pc = "completed" => Validates(task.result, task.topBiases)
    /\ task.pc = "failed" =>
          /\ task.requests = Retries
          /\ task.thrown = task.error
          /\ task.saved = NothingSaved
    /\ task.pc # "completed" => task.saved = NothingSaved

----------------------------------------------------------------------------
\* the capacity a problem description states: the number after "capacity"
StatedCapacity(prompt) ==
    ParseInt(SubSeq(prompt, Len(PuzzleHeading) + Len(ShuttleWithCapacity) + 1,
                    DigitRun(prompt, Len(PuzzleHeading) + Len(ShuttleWithCapacity) + 1)))

CapacityZeroOrAbsent(cfg) == ~HasCapacity(cfg) \/ cfg.starshipCapacity = 0

\* C38: a config whose starshipCapacity is 0 or absent is compiled as if the
\* capacity were 2: generatePrologCode emits exactly the move set for capacity 2
\* and generateProblemDescription states capacity 2; for every config the
\* capacity the description states is the one the program's moves are built for.
C38_DefaultCapacityAgrees ==
    /\ pc = "compiled" /\ CapacityZeroOrAbsent(config) =>
          /\ program.move = generateAllowedMoves(Len(config.species), 2)
          /\ program = generatePrologCode(WithCapacity(config, 2))
    /\ modal.pc = "described" /\ CapacityZeroOrAbsent(config) =>
          /\ StatedCapacity(modal.prompt) = 2
          /\ modal.prompt = generateProblemDescription(WithCapacity(config, 2))
    /\ pc = "compiled" /\ modal.pc = "described" =>
          program.move = generateAllowedMoves(Len(config.species), StatedCapacity(modal.prompt))

C38_Witness ==
    /\ pc = "compiled"
    /\ modal.pc = "described"
    /\ ~HasCapacity(config)
    /\ Len(config.species) = 2
    /\ Len(config.relationships) = 1
    /\ Len(program.move) = 5

====
